---- MODULE Spec2Model ----
(***************************************************************************)
(* Model of the VDES performance measurement programs.                     *)
(*                                                                         *)
(*  - receive side: reporting/tdb_sentence_reassembler.py                  *)
(*    (TdbSentenceReassembler), driven through reassemble_sentences and    *)
(*    finalize_pending_groups_as_boundary_failure;                         *)
(*  - send side: udp/send/udp_sender.py (run_periodic_udp_send) and        *)
(*    udp/receive/udp_receiver.py (run_multicast_udp_receive), two         *)
(*    processes sharing stop_event and response_flag_queue.                *)
(*                                                                         *)
(* Python str values are sequences of one-character strings, so that       *)
(* strip, find, split and int are computed as the code computes them.      *)
(* Optional values: None is <<>> and a present value v is <<v>>.           *)
(* An operation that may raise returns [ok |-> FALSE] for the exception    *)
(* and [ok |-> TRUE, value |-> v] for the value.                           *)
(***************************************************************************)
EXTENDS Integers, Sequences, FiniteSets, TLC

\* ------------------------------------------------------------------ bounds

\* received_at is drawn from {0} and EXPIRY .. EXPIRY + MaxLate (seconds).
MaxLate == 1
\* The largest total of the enumerated well-formed fragments.
MaxTotal == 3
\* The most passes of the upload loop that fail before one succeeds.
MaxFailedAttempts == 3

\* The most sentences of a datagram text given to the fragment extractor.
MaxPieces == 3

\* Datagrams the acknowledgement receive unit takes from its socket in one run.
MaxDatagrams == 3

\* maxsize of the acknowledgement channel handed to the two units.
MaxQueued == 2

\* Datagrams the metrics receive loop takes from its socket in one run.
MaxReceived == 3

\* The last second of the clock of the metrics receive loop.
MaxClock == 62

\* --------------------------------------------------------- python built-ins

None == <<>>
Some(v) == <<v>>
Raise == [ok |-> FALSE]
Return(v) == [ok |-> TRUE, value |-> v]

\* Character code 96 (grave accent), which a TLA+ string cannot hold: it is
\* written with this name and counts as one character.
GRAVE == "grave"

\* Printable ASCII, code 32 (space) to code 126.
ASCII ==
  << " ", "!", "\"", "#", "$", "%", "&", "'", "(", ")", "*", "+", ",", "-", ".", "/",
     "0", "1", "2", "3", "4", "5", "6", "7", "8", "9", ":", ";", "<", "=", ">", "?",
     "@", "A", "B", "C", "D", "E", "F", "G", "H", "I", "J", "K", "L", "M", "N", "O",
     "P", "Q", "R", "S", "T", "U", "V", "W", "X", "Y", "Z", "[", "\\", "]", "^", "_",
     GRAVE, "a", "b", "c", "d", "e", "f", "g", "h", "i", "j", "k", "l", "m", "n", "o",
     "p", "q", "r", "s", "t", "u", "v", "w", "x", "y", "z", "{", "|", "}", "~" >>

OrdTable == [c \in {ASCII[i] : i \in 1..Len(ASCII)} |->
               31 + (CHOOSE i \in 1..Len(ASCII) : ASCII[i] = c)]

\* ord(char) / chr(code) on printable ASCII.
ord(char) == OrdTable[char]
chr(code) == ASCII[code - 31]

Digits == <<"0", "1", "2", "3", "4", "5", "6", "7", "8", "9">>
IsDigit(c) == \E i \in 1..10 : Digits[i] = c
DigitValue(c) == (CHOOSE i \in 1..10 : Digits[i] = c) - 1

\* str.isspace of one character (the model's texts hold no other white space).
IsSpace(c) == c \in {" ", "\t", "\n", "\r"}

RECURSIVE lstrip(_)
lstrip(s) == IF s # <<>> /\ IsSpace(Head(s)) THEN lstrip(Tail(s)) ELSE s

RECURSIVE rstrip(_)
rstrip(s) ==
  IF s # <<>> /\ IsSpace(s[Len(s)]) THEN rstrip(SubSeq(s, 1, Len(s) - 1)) ELSE s

\* str.strip()
strip(s) == rstrip(lstrip(s))

\* str.find(ch, start): 0-based position of the first ch at or after the
\* 0-based position start, -1 when there is none.
find(s, ch, start) ==
  LET hits == {i \in (start + 1)..Len(s) : s[i] = ch}
  IN  IF hits = {} THEN 0 - 1
      ELSE (CHOOSE i \in hits : \A j \in hits : i <= j) - 1

\* s[lo:hi] with 0 <= lo, hi (python slice, 0-based, hi exclusive).
slice(s, lo, hi) ==
  LET h == IF hi > Len(s) THEN Len(s) ELSE hi
  IN  IF lo >= h THEN <<>> ELSE SubSeq(s, lo + 1, h)

\* str.split(sep): the fields between the separators, at least one field.
RECURSIVE split(_, _)
split(s, sep) ==
  LET k == find(s, sep, 0)
  IN  IF k < 0 THEN <<s>>
      ELSE <<slice(s, 0, k)>> \o split(slice(s, k + 1, Len(s)), sep)

\* str.split(sep, 1)[0]: the text before the first separator.
split_first(s, sep) ==
  LET k == find(s, sep, 0) IN IF k < 0 THEN s ELSE slice(s, 0, k)

\* str.startswith / str.endswith
startswith(s, p) == Len(s) >= Len(p) /\ SubSeq(s, 1, Len(p)) = p
endswith(s, p) == Len(s) >= Len(p) /\ SubSeq(s, Len(s) - Len(p) + 1, Len(s)) = p

\* int(text) of a stripped text: an optional sign, then decimal digits in
\* which single underscores may separate digits.
IntBody(v) == IF v # <<>> /\ Head(v) \in {"+", "-"} THEN Tail(v) ELSE v

IsIntText(v) ==
  LET b == IntBody(v)
  IN  /\ b # <<>>
      /\ \A i \in 1..Len(b) : IsDigit(b[i]) \/ b[i] = "_"
      /\ IsDigit(b[1]) /\ IsDigit(b[Len(b)])
      /\ \A i \in 1..(Len(b) - 1) : ~(b[i] = "_" /\ b[i + 1] = "_")

RECURSIVE DigitsValue(_, _)
DigitsValue(b, acc) ==
  IF b = <<>> THEN acc
  ELSE IF Head(b) = "_" THEN DigitsValue(Tail(b), acc)
  ELSE DigitsValue(Tail(b), acc * 10 + DigitValue(Head(b)))

int(v) ==
  IF ~IsIntText(v) THEN Raise
  ELSE IF Head(v) = "-" THEN Return(0 - DigitsValue(IntBody(v), 0))
  ELSE Return(DigitsValue(IntBody(v), 0))

\* str(n) of an integer n >= 0, as in an f-string "{n}".
RECURSIVE str(_)
str(n) == IF n < 10 THEN <<Digits[n + 1]>> ELSE str(n \div 10) \o <<Digits[(n % 10) + 1]>>

\* sep.join(parts)
RECURSIVE join(_, _)
join(parts, sep) ==
  IF parts = <<>> THEN <<>>
  ELSE IF Len(parts) = 1 THEN parts[1]
  ELSE parts[1] \o sep \o join(Tail(parts), sep)

\* dict helpers: dict.pop(key, None) and dict[key] = value.
Pop(d, key) == [k \in (DOMAIN d) \ {key} |-> d[k]]
Put(d, key, value) == [k \in (DOMAIN d) \cup {key} |-> IF k = key THEN value ELSE d[k]]
EmptyDict == [k \in {} |-> None]


\* ------------------------------------------- consts/tdb_constants.py values

NMEA_SENTENCE_START_MARK == "!"
NMEA_FIELD_SEPARATOR == ","
NMEA_CHECKSUM_SEPARATOR == "*"
TDB_TOKEN_LENGTH == 5
TDB_TOKEN_SUFFIX == <<"T", "D", "B">>
TDB_FIELD_TOTAL_POSITION == 1
TDB_FIELD_SEGMENT_INDEX_POSITION == 2
TDB_FIELD_SEQUENCE_POSITION == 3
TDB_FIELD_SOURCE_POSITION == 4
TDB_FIELD_DESTINATION_POSITION == 5
TDB_FIELD_PAYLOAD_POSITION == 8
TDB_FIELD_FILL_POSITION == 9
TDB_MIN_FIELD_COUNT == 10
TDB_GROUP_IDENTITY_MIN_FIELD_COUNT == 6
TDB_FILL_MIN_VALUE == 0
TDB_FILL_MAX_VALUE == 5
TDB_GROUP_EXPIRY_SECONDS == 30
AIS_SIXBIT_CHUNK_SIZE == 6
AIS_SIXBIT_MIN_VALUE == 0
AIS_SIXBIT_MAX_VALUE == 63
AIS_CHAR_RANGE_LOW_START == 48
AIS_CHAR_RANGE_LOW_END == 87
AIS_CHAR_RANGE_HIGH_START == 96
AIS_CHAR_RANGE_HIGH_END == 119
AIS_CHAR_LOW_OFFSET == 48
AIS_CHAR_HIGH_OFFSET == 56
AIS_CHAR_SPLIT_THRESHOLD == 40

\* fields[position] of a python list (0-based).
At(fields, position) == fields[position + 1]

\* ------------------------------------------------------------ 6-bit codec

\* f"{bit_value:06b}": the value as AIS_SIXBIT_CHUNK_SIZE binary digits
\* (a sequence of 0 / 1, most significant first).
RECURSIVE ToBits(_, _)
ToBits(value, width) ==
  IF width = 0 THEN <<>> ELSE ToBits(value \div 2, width - 1) \o <<value % 2>>

\* int(chunk, 2)
RECURSIVE FromBits(_)
FromBits(bits) ==
  IF bits = <<>> THEN 0
  ELSE 2 * FromBits(SubSeq(bits, 1, Len(bits) - 1)) + bits[Len(bits)]

\* Variant: one offset for both ranges of characters.
CharToSixbitOneOffset(char) ==
  LET code == ord(char)
  IN  IF \/ AIS_CHAR_RANGE_LOW_START <= code /\ code <= AIS_CHAR_RANGE_LOW_END
         \/ AIS_CHAR_RANGE_HIGH_START <= code /\ code <= AIS_CHAR_RANGE_HIGH_END
        THEN Return(code - AIS_CHAR_LOW_OFFSET)
      ELSE Raise

_ais_char_to_sixbit(char) ==
  LET code == ord(char)
  IN  IF AIS_CHAR_RANGE_LOW_START <= code /\ code <= AIS_CHAR_RANGE_LOW_END
        THEN Return(code - AIS_CHAR_LOW_OFFSET)
      ELSE IF AIS_CHAR_RANGE_HIGH_START <= code /\ code <= AIS_CHAR_RANGE_HIGH_END
        THEN Return(code - AIS_CHAR_HIGH_OFFSET)
      ELSE Raise

RECURSIVE PayloadBitChunks(_)
PayloadBitChunks(payload) ==
  IF payload = <<>> THEN Return(<<>>)
  ELSE LET v == _ais_char_to_sixbit(Head(payload))
       IN  IF ~v.ok THEN Raise
           ELSE LET rest == PayloadBitChunks(Tail(payload))
                IN  IF ~rest.ok THEN Raise
                    ELSE Return(ToBits(v.value, AIS_SIXBIT_CHUNK_SIZE) \o rest.value)

_payload_to_bits(payload, fill) ==
  LET chunks == PayloadBitChunks(payload)
  IN  IF ~chunks.ok THEN Raise
      ELSE IF fill = 0 THEN chunks
      ELSE IF fill > Len(chunks.value) THEN Raise
      ELSE Return(SubSeq(chunks.value, 1, Len(chunks.value) - fill))

_sixbit_to_ais_char(value) ==
  IF value < AIS_SIXBIT_MIN_VALUE \/ value > AIS_SIXBIT_MAX_VALUE THEN Raise
  ELSE IF value < AIS_CHAR_SPLIT_THRESHOLD THEN Return(chr(value + AIS_CHAR_LOW_OFFSET))
  ELSE Return(chr(value + AIS_CHAR_HIGH_OFFSET))

RECURSIVE BitsToChars(_)
BitsToChars(bits) ==
  IF bits = <<>> THEN Return(<<>>)
  ELSE LET c == _sixbit_to_ais_char(FromBits(SubSeq(bits, 1, AIS_SIXBIT_CHUNK_SIZE)))
       IN  IF ~c.ok THEN Raise
           ELSE LET rest == BitsToChars(SubSeq(bits, AIS_SIXBIT_CHUNK_SIZE + 1, Len(bits)))
                IN  IF ~rest.ok THEN Raise ELSE Return(<<c.value>> \o rest.value)

_bits_to_payload(bits) ==
  IF Len(bits) % AIS_SIXBIT_CHUNK_SIZE # 0 THEN Raise ELSE BitsToChars(bits)

\* Variant: the codes are added.
XorAsSum(a, b) == a + b

\* a ^ b on non-negative integers.
RECURSIVE Xor(_, _)
Xor(a, b) ==
  IF a = 0 THEN b
  ELSE IF b = 0 THEN a
  ELSE 2 * Xor(a \div 2, b \div 2) + ((a + b) % 2)

HexDigits == <<"0", "1", "2", "3", "4", "5", "6", "7",
               "8", "9", "A", "B", "C", "D", "E", "F">>

\* f"{checksum:02X}"
RECURSIVE HexText(_)
HexText(n) ==
  IF n < 16 THEN <<HexDigits[n + 1]>> ELSE HexText(n \div 16) \o <<HexDigits[(n % 16) + 1]>>

Hex02(n) == IF n < 16 THEN <<"0">> \o HexText(n) ELSE HexText(n)

RECURSIVE XorOrds(_, _)
XorOrds(text, checksum) ==
  IF text = <<>> THEN checksum ELSE XorOrds(Tail(text), Xor(checksum, ord(Head(text))))

_calculate_checksum(sentence_body) == Hex02(XorOrds(sentence_body, 0))

\* ------------------------------------------------------- sentence parsing

\* Variant: the sentence type is stripped before it is measured, as the
\* receive loop does.
is_tdb_sentence_stripping_token(sentence) ==
  IF sentence = <<>> \/ ~startswith(sentence, <<NMEA_SENTENCE_START_MARK>>) THEN FALSE
  ELSE LET comma_index == find(sentence, NMEA_FIELD_SEPARATOR, 0)
       IN  IF comma_index <= 1 THEN FALSE
           ELSE LET token == strip(slice(sentence, 1, comma_index))
                IN  IF Len(token) # TDB_TOKEN_LENGTH THEN FALSE
                    ELSE endswith(token, TDB_TOKEN_SUFFIX)

_is_tdb_sentence(sentence) ==
  IF sentence = <<>> \/ ~startswith(sentence, <<NMEA_SENTENCE_START_MARK>>) THEN FALSE
  ELSE LET comma_index == find(sentence, NMEA_FIELD_SEPARATOR, 0)
       IN  IF comma_index <= 1 THEN FALSE
           ELSE LET token == slice(sentence, 1, comma_index)
                IN  IF Len(token) # TDB_TOKEN_LENGTH THEN FALSE
                    ELSE endswith(token, TDB_TOKEN_SUFFIX)

_parse_int(value) ==
  LET normalized_value == strip(value)
  IN  IF normalized_value = <<>> THEN Raise ELSE int(normalized_value)

\* _TdbSegment
_TdbSegment(total, index, src, dst, payload, fill) ==
  [total |-> total, index |-> index, src |-> src, dst |-> dst,
   payload |-> payload, fill |-> fill]

\* Variant: the ranges of index and fill are not checked.
ParseWithoutRanges(sentence) ==
  LET body == split_first(sentence, NMEA_CHECKSUM_SEPARATOR)
      fields == split(body, NMEA_FIELD_SEPARATOR)
  IN  IF Len(fields) < TDB_MIN_FIELD_COUNT THEN Raise
      ELSE
        LET total == _parse_int(At(fields, TDB_FIELD_TOTAL_POSITION))
            index == _parse_int(At(fields, TDB_FIELD_SEGMENT_INDEX_POSITION))
            seq == _parse_int(At(fields, TDB_FIELD_SEQUENCE_POSITION))
            src == strip(At(fields, TDB_FIELD_SOURCE_POSITION))
            dst == strip(At(fields, TDB_FIELD_DESTINATION_POSITION))
            payload == strip(At(fields, TDB_FIELD_PAYLOAD_POSITION))
            fill == _parse_int(At(fields, TDB_FIELD_FILL_POSITION))
        IN  IF ~total.ok \/ ~index.ok \/ ~seq.ok \/ ~fill.ok THEN Raise
            ELSE IF total.value < 1 THEN Raise
            ELSE IF payload = <<>> THEN Raise
            ELSE Return(_TdbSegment(total.value, index.value, src, dst,
                                    payload, fill.value))

_parse_tdb_sentence(sentence) ==
  LET body == split_first(sentence, NMEA_CHECKSUM_SEPARATOR)
      fields == split(body, NMEA_FIELD_SEPARATOR)
  IN  IF Len(fields) < TDB_MIN_FIELD_COUNT THEN Raise
      ELSE
        LET total == _parse_int(At(fields, TDB_FIELD_TOTAL_POSITION))
            index == _parse_int(At(fields, TDB_FIELD_SEGMENT_INDEX_POSITION))
            seq == _parse_int(At(fields, TDB_FIELD_SEQUENCE_POSITION))
            src == strip(At(fields, TDB_FIELD_SOURCE_POSITION))
            dst == strip(At(fields, TDB_FIELD_DESTINATION_POSITION))
            payload == strip(At(fields, TDB_FIELD_PAYLOAD_POSITION))
            fill == _parse_int(At(fields, TDB_FIELD_FILL_POSITION))
        IN  IF ~total.ok \/ ~index.ok \/ ~seq.ok \/ ~fill.ok THEN Raise
            ELSE IF total.value < 1 THEN Raise
            ELSE IF index.value < 1 \/ index.value > total.value THEN Raise
            ELSE IF fill.value < TDB_FILL_MIN_VALUE \/ fill.value > TDB_FILL_MAX_VALUE
              THEN Raise
            ELSE IF payload = <<>> THEN Raise
            ELSE Return(_TdbSegment(total.value, index.value, src, dst,
                                    payload, fill.value))

\* Returns None or Some(<<total, index, src, dst>>), index being None or Some(i).
_try_extract_group_identity(sentence) ==
  IF sentence = <<>> THEN None
  ELSE
    LET body == split_first(sentence, NMEA_CHECKSUM_SEPARATOR)
        fields == split(body, NMEA_FIELD_SEPARATOR)
    IN  IF Len(fields) < TDB_GROUP_IDENTITY_MIN_FIELD_COUNT THEN None
        ELSE
          LET total == _parse_int(At(fields, TDB_FIELD_TOTAL_POSITION))
              parsed_index == IF Len(fields) > TDB_FIELD_SEGMENT_INDEX_POSITION
                              THEN _parse_int(At(fields, TDB_FIELD_SEGMENT_INDEX_POSITION))
                              ELSE Raise
              index == IF parsed_index.ok THEN Some(parsed_index.value) ELSE None
              src == strip(At(fields, TDB_FIELD_SOURCE_POSITION))
              dst == strip(At(fields, TDB_FIELD_DESTINATION_POSITION))
          IN  IF ~total.ok THEN None
              ELSE IF src = <<>> \/ dst = <<>> THEN None
              ELSE IF total.value < 1 THEN None
              ELSE Some(<<total.value, index, src, dst>>)

\* ------------------------------------------------- TdbSentenceReassembler
\* The reassembler's fields and the journals of one call are gathered in a
\* record st:
\*   groups    _groups: group key <<total, src, dst>> -> _TdbSegmentGroup
\*   success   _split_reconstruct_success_count
\*   failure   _split_reconstruct_failure_count
\*   log       the warnings written by _mark_group_failure_with_log during
\*             the call, as <<reason, group_key>>
\*   closed    history of the call: one entry [key, outcome] for every group
\*             that _mark_group_success / _mark_group_failure removed from
\*             _groups (a pop that found no group adds no entry)

\* _TdbSegmentGroup(total, src, dst): no segments, last_received_at None.
_TdbSegmentGroup(total, src, dst) ==
  [total |-> total, src |-> src, dst |-> dst, segments |-> EmptyDict,
   last_received_at |-> None]

\* Variant: the closure is recorded and the group is left in _groups.
mark_group_success_keeping_group(st, group_key) ==
  IF group_key \notin DOMAIN st.groups THEN st
  ELSE [st EXCEPT !.closed = Append(@, [key |-> group_key, outcome |-> "success"])]

\* The success / failure increments are commented out in the source
\* (lines 190-191 and 196-197): the counters are left as they are.
_mark_group_success(st, group_key) ==
  IF group_key \notin DOMAIN st.groups THEN st
  ELSE LET group == st.groups[group_key]
           popped == [st EXCEPT !.groups = Pop(@, group_key)]
       IN  IF group.total < 2 THEN popped
           ELSE [popped EXCEPT
                   !.closed = Append(@, [key |-> group_key, outcome |-> "success"])]

\* Variant: a closure is recorded whether or not the key had a group.
mark_group_failure_recording_always(st, group_key) ==
  [st EXCEPT !.groups = [key \in DOMAIN @ \ {group_key} |-> @[key]],
             !.closed = Append(@, [key |-> group_key, outcome |-> "failure"])]

\* Variant: the failure closes every group of the same source and
\* destination, whatever its total.
mark_group_failure_every_total(st, group_key) ==
  IF group_key \notin DOMAIN st.groups THEN st
  ELSE [st EXCEPT !.groups = [key \in {k \in DOMAIN @ : k[2] # group_key[2]
                                                         \/ k[3] # group_key[3]} |-> @[key]],
                  !.closed = Append(@, [key |-> group_key, outcome |-> "failure"])]

_mark_group_failure(st, group_key) ==
  IF group_key \notin DOMAIN st.groups THEN st
  ELSE [st EXCEPT !.groups = Pop(@, group_key),
                  !.closed = Append(@, [key |-> group_key, outcome |-> "failure"])]

_mark_group_failure_with_log(st, group_key, message) ==
  _mark_group_failure([st EXCEPT !.log = Append(@, <<message, group_key>>)], group_key)

\* Variant: the segments are joined from the last index down to the first.
BuildFromLastIndex(group) ==
  IF \E index \in 1..group.total : index \notin DOMAIN group.segments THEN Return(None)
  ELSE
    LET Concat[index \in 0..group.total] ==
          IF index = 0 THEN <<>> ELSE group.segments[index] \o Concat[index - 1]
        combined_bits == Concat[group.total]
    IN  IF combined_bits = <<>> THEN Return(None)
        ELSE
          LET fill == (AIS_SIXBIT_CHUNK_SIZE
                         - (Len(combined_bits) % AIS_SIXBIT_CHUNK_SIZE))
                      % AIS_SIXBIT_CHUNK_SIZE
              padded == combined_bits \o [k \in 1..fill |-> 0]
              payload == _bits_to_payload(padded)
          IN  IF ~payload.ok THEN Raise
              ELSE
                LET sentence_body ==
                      <<"V", "A", "T", "D", "B", ",", "1", ",", "1", ",", "0", ",">>
                        \o group.src \o <<",">> \o group.dst
                        \o <<",", "0", ",", "0", ",">> \o payload.value
                        \o <<",">> \o str(fill)
                IN  Return(Some(<<"!">> \o sentence_body \o <<"*">>
                                  \o _calculate_checksum(sentence_body)))

\* Returns Raise, Return(None) or Return(Some(sentence)).
_build_reassembled_sentence(group) ==
  IF \E index \in 1..group.total : index \notin DOMAIN group.segments THEN Return(None)
  ELSE
    LET Concat[index \in 0..group.total] ==
          IF index = 0 THEN <<>> ELSE Concat[index - 1] \o group.segments[index]
        combined_bits == Concat[group.total]
    IN  IF combined_bits = <<>> THEN Return(None)
        ELSE
          LET fill == (AIS_SIXBIT_CHUNK_SIZE
                         - (Len(combined_bits) % AIS_SIXBIT_CHUNK_SIZE))
                      % AIS_SIXBIT_CHUNK_SIZE
              padded == combined_bits \o [k \in 1..fill |-> 0]
              payload == _bits_to_payload(padded)
          IN  IF ~payload.ok THEN Raise
              ELSE
                LET sentence_body ==
                      <<"V", "A", "T", "D", "B", ",", "1", ",", "1", ",", "0", ",">>
                        \o group.src \o <<",">> \o group.dst
                        \o <<",", "0", ",", "0", ",">> \o payload.value
                        \o <<",">> \o str(fill)
                IN  Return(Some(<<"!">> \o sentence_body \o <<"*">>
                                  \o _calculate_checksum(sentence_body)))

\* Line 279: the index is already held by the group.
\* Variant: a repeated index is never noticed, the fragment overwrites.
IndexNeverHeld(segment, group) == FALSE

\* Variant: an index that does not follow the indices held counts as held.
IndexHeldOrOutOfOrder(segment, group) ==
  \/ segment.index \in DOMAIN group.segments
  \/ segment.index # Cardinality(DOMAIN group.segments) + 1

IndexAlreadyHeld(segment, group) == segment.index \in DOMAIN group.segments

\* Line 308: fragments are still missing.
\* Variant: a group holding all its fragments still counts as incomplete.
GroupIncompleteAtTotal(group) == Cardinality(DOMAIN group.segments) <= group.total

GroupIncomplete(group) == Cardinality(DOMAIN group.segments) < group.total

\* Line 266: an index 1 arrives while the group of its key is open.
\* Variant: an index 1 joins the open group like any other index.
SupersedesNever(segment, group_key, open_groups) == FALSE

Supersedes(segment, group_key, open_groups) ==
  segment.index = 1 /\ group_key \in DOMAIN open_groups

\* Returns [st, ret]: the state after the call and None or Some(sentence).
_register_segment(st, segment, received_at) ==
  LET group_key == <<segment.total, segment.src, segment.dst>>
      st1 == IF Supersedes(segment, group_key, st.groups)
             THEN _mark_group_failure_with_log(st, group_key, "superseded")
             ELSE st
      group == IF group_key \in DOMAIN st1.groups THEN st1.groups[group_key]
               ELSE _TdbSegmentGroup(segment.total, segment.src, segment.dst)
  IN  IF IndexAlreadyHeld(segment, group)
        THEN [st |-> _mark_group_failure_with_log(st1, group_key, "duplicate"),
              ret |-> None]
      ELSE
        LET segment_bits == _payload_to_bits(segment.payload, segment.fill)
        IN  IF ~segment_bits.ok
              THEN [st |-> _mark_group_failure_with_log(st1, group_key, "payload"),
                    ret |-> None]
            ELSE
              LET stored == [group EXCEPT
                               !.segments = Put(@, segment.index, segment_bits.value),
                               !.last_received_at = Some(received_at)]
                  st2 == [st1 EXCEPT !.groups = Put(@, group_key, stored)]
              IN  IF GroupIncomplete(stored)
                    THEN [st |-> st2, ret |-> None]
                  ELSE
                    LET reassembled_sentence == _build_reassembled_sentence(stored)
                    IN  IF ~reassembled_sentence.ok
                          THEN [st |-> _mark_group_failure_with_log(st2, group_key, "build"),
                                ret |-> None]
                        ELSE IF reassembled_sentence.value = None
                          THEN [st |-> _mark_group_failure(st2, group_key), ret |-> None]
                        ELSE [st |-> _mark_group_success(st2, group_key),
                              ret |-> reassembled_sentence.value]

\* _mark_group_failure_with_log for each of the keys (a for loop of the code).
RECURSIVE MarkEach(_, _, _)
MarkEach(st, keys, message) ==
  IF keys = {} THEN st
  ELSE LET group_key == CHOOSE k \in keys : TRUE
       IN  MarkEach(IF group_key \in DOMAIN st.groups
                    THEN _mark_group_failure_with_log(st, group_key, message)
                    ELSE st,
                    keys \ {group_key}, message)

\* Lines 338-352: the group is put in expired_keys.
\* Variant: a group expires already at the expiry time, not after it.
IsExpiredAtLimit(group, received_at) ==
  /\ group.last_received_at # None
  /\ ~(received_at < group.last_received_at[1])
  /\ received_at - group.last_received_at[1] >= TDB_GROUP_EXPIRY_SECONDS

\* Variant: the distance between the two times decides, whichever is earlier.
IsExpiredEitherWay(group, received_at) ==
  /\ group.last_received_at # None
  /\ \/ received_at - group.last_received_at[1] > TDB_GROUP_EXPIRY_SECONDS
     \/ group.last_received_at[1] - received_at > TDB_GROUP_EXPIRY_SECONDS

IsExpired(group, received_at) ==
  /\ group.last_received_at # None
  /\ ~(received_at < group.last_received_at[1])
  /\ received_at - group.last_received_at[1] > TDB_GROUP_EXPIRY_SECONDS

\* The keys _expire_groups collects in expired_keys.
ExpiredKeys(st, received_at) ==
  {group_key \in DOMAIN st.groups : IsExpired(st.groups[group_key], received_at)}

_expire_groups(st, received_at) ==
  IF DOMAIN st.groups = {} THEN st
  ELSE MarkEach(st, ExpiredKeys(st, received_at), "expired")

\* What lines 126-138 of reassemble_sentences compute from the sentence text
\* alone: the stripped text, whether it is a fragment sentence, the parsed
\* segment (or the exception) and the identity read after a parse failure.
Reading(sentence) ==
  LET normalized_sentence == strip(sentence)
      is_tdb == _is_tdb_sentence(normalized_sentence)
      segment == IF is_tdb THEN _parse_tdb_sentence(normalized_sentence) ELSE Raise
  IN  [normalized_sentence |-> normalized_sentence,
       is_tdb |-> is_tdb,
       segment |-> segment,
       group_identity |-> IF is_tdb /\ ~segment.ok
                          THEN _try_extract_group_identity(normalized_sentence)
                          ELSE None]

\* Lines 142-147: should_mark_failure after a parse failure whose group
\* identity could be read.
\* Variant: only a readable index 1 closes the group of a failed sentence.
ShouldMarkFailureFirstOnly(total, index, group_key, open_groups) ==
  /\ total >= 2
  /\ index = Some(1)

\* Variant: the failure step is taken only for a key with an open group.
ShouldMarkFailureOpenOnly(total, index, group_key, open_groups) ==
  /\ total >= 2
  /\ group_key \in DOMAIN open_groups

ShouldMarkFailure(total, index, group_key, open_groups) ==
  /\ total >= 2
  /\ \/ index = Some(1)
     \/ group_key \in DOMAIN open_groups

\* Line 164: a single-fragment sentence is passed through.
\* Variant: a total of 1 is registered like a split sentence.
IsSingleFragmentBelowOne(segment) == segment.total < 1

IsSingleFragment(segment) == segment.total < 2

\* The body of the for loop of reassemble_sentences for one sentence, given
\* its reading. acc is [st, results].
ProcessReading(acc, reading, received_at) ==
  IF reading.normalized_sentence = <<>> THEN acc
  ELSE IF ~reading.is_tdb
    THEN [acc EXCEPT !.results = Append(@, reading.normalized_sentence)]
  ELSE IF ~reading.segment.ok
    THEN
      IF reading.group_identity = None THEN acc
      ELSE
        LET total == reading.group_identity[1][1]
            index == reading.group_identity[1][2]
            src == reading.group_identity[1][3]
            dst == reading.group_identity[1][4]
            group_key == <<total, src, dst>>
            should_mark_failure ==
              ShouldMarkFailure(total, index, group_key, acc.st.groups)
        IN  IF should_mark_failure
              THEN [acc EXCEPT !.st = _mark_group_failure_with_log(@, group_key, "parse")]
            ELSE acc
  ELSE IF IsSingleFragment(reading.segment.value)
    THEN [acc EXCEPT !.results = Append(@, reading.normalized_sentence)]
  ELSE
    LET registered == _register_segment(acc.st, reading.segment.value, received_at)
    IN  IF registered.ret = None THEN [acc EXCEPT !.st = registered.st]
        ELSE [st |-> registered.st, results |-> Append(acc.results, registered.ret[1])]

\* --------------------------------------------------------------- inputs

\* "!VATDB," fields joined by "," then "*00".
Sentence(fields) ==
  <<"!", "V", "A", "T", "D", "B", ",">> \o join(fields, <<",">>) \o <<"*", "0", "0">>

SrcA == <<"A">>
DstB == <<"B">>
DstC == <<"C">>

\* payload and fill of the well-formed fragment with a given index.
FragmentPayloads ==
  << [payload |-> <<"1">>, fill |-> 0],
     [payload |-> <<"w", "0">>, fill |-> 4],
     [payload |-> <<"0", GRAVE>>, fill |-> 1],
     [payload |-> <<"W">>, fill |-> 5] >>

PayloadOf(index) == FragmentPayloads[((index - 1) % Len(FragmentPayloads)) + 1]

\* The fields, after the sentence type, of the well-formed fragment
\* index / total of the key <<total, SrcA, DstB>>.
Fields(total, index) ==
  <<str(total), str(index), <<"1">>, SrcA, DstB, <<"0">>, <<"0">>,
    PayloadOf(index).payload, str(PayloadOf(index).fill)>>

Fragment(total, index) == Sentence(Fields(total, index))

\* Totals of the enumerated well-formed fragments: a single-fragment
\* message, the smallest split group and the largest one.
FragmentTotals == {1, 2, MaxTotal}

WellFormedFragments ==
  UNION {{Fragment(total, index) : index \in 1..total} : total \in FragmentTotals}

\* Fragment(total, index) with one field replaced (0-based position, the
\* sentence type being field 0).
WithField(total, index, position, text) ==
  Sentence([Fields(total, index) EXCEPT ![position] = text])

\* Fragment sentences that fail parsing, or parse and cannot be decoded.
MalformedFragments ==
  { \* index is no integer: identity <<2, None, A, B>>
    WithField(2, 1, TDB_FIELD_SEGMENT_INDEX_POSITION, <<"X">>),
    \* the same for the key <<2, A, C>>
    Sentence([Fields(2, 1) EXCEPT ![TDB_FIELD_SEGMENT_INDEX_POSITION] = <<"X">>,
                                  ![TDB_FIELD_DESTINATION_POSITION] = DstC]),
    \* the same for the key <<MaxTotal, A, B>>
    WithField(MaxTotal, 1, TDB_FIELD_SEGMENT_INDEX_POSITION, <<"X">>),
    \* fill out of range, index 1
    WithField(2, 1, TDB_FIELD_FILL_POSITION, <<"6">>),
    \* empty payload, index 2
    WithField(2, 2, TDB_FIELD_PAYLOAD_POSITION, <<>>),
    \* fewer than TDB_GROUP_IDENTITY_MIN_FIELD_COUNT fields
    Sentence(SubSeq(Fields(2, 2), 1, TDB_FIELD_SOURCE_POSITION)),
    \* total 1, index is no integer
    WithField(1, 1, TDB_FIELD_SEGMENT_INDEX_POSITION, <<"X">>),
    \* empty src
    WithField(2, 1, TDB_FIELD_SOURCE_POSITION, <<>>),
    \* payload character outside the AIS ranges, index 1 and index 2
    WithField(2, 1, TDB_FIELD_PAYLOAD_POSITION, <<"X">>),
    WithField(2, 2, TDB_FIELD_PAYLOAD_POSITION, <<"X">>),
    \* total is no integer, total below 1
    WithField(2, 1, TDB_FIELD_TOTAL_POSITION, <<"X">>),
    WithField(2, 1, TDB_FIELD_TOTAL_POSITION, <<"0">>),
    \* index below 1, index above total
    WithField(2, 1, TDB_FIELD_SEGMENT_INDEX_POSITION, <<"0">>),
    WithField(2, 2, TDB_FIELD_SEGMENT_INDEX_POSITION, <<"3">>),
    \* sequence is no integer, fill is no integer, fill below 0
    WithField(2, 2, TDB_FIELD_SEQUENCE_POSITION, <<"X">>),
    WithField(2, 2, TDB_FIELD_FILL_POSITION, <<>>),
    WithField(2, 2, TDB_FIELD_FILL_POSITION, <<"-", "1">>),
    \* empty src and a fill out of range
    Sentence([Fields(2, 1) EXCEPT ![TDB_FIELD_SOURCE_POSITION] = <<>>,
                                  ![TDB_FIELD_FILL_POSITION] = <<"6">>]),
    \* one field fewer than TDB_MIN_FIELD_COUNT: the fill field is missing
    Sentence(SubSeq(Fields(2, 2), 1, TDB_FIELD_PAYLOAD_POSITION)) }

\* Sentences that are no fragment sentence, and white-space variants.
OtherSentences ==
  { <<"$", "V", "E", "T", "M", "K", ",", "0", ",", "1", "*", "0", "0">>,
    <<" ">> \o Fragment(1, 1) \o <<" ">>,
    <<" ">> \o WithField(2, 2, TDB_FIELD_TOTAL_POSITION, <<" ", "2", " ">>),
    <<" ">> }

Sentences == WellFormedFragments \cup MalformedFragments \cup OtherSentences

\* The enumerated sentences in a fixed order, and their readings, computed
\* once: the for loop below is given the readings of the call's sentences.
RECURSIVE SeqOfSet(_)
SeqOfSet(set) ==
  IF set = {} THEN <<>>
  ELSE LET x == CHOOSE x \in set : TRUE IN <<x>> \o SeqOfSet(set \ {x})

SentenceList == SeqOfSet(Sentences)
Readings == [n \in 1..Len(SentenceList) |-> Reading(SentenceList[n])]

\* Variant: the loop ends at the first fragment sentence that fails parsing.
RECURSIVE ProcessUntilFailure(_, _, _)
ProcessUntilFailure(acc, readings, received_at) ==
  IF readings = <<>> THEN acc
  ELSE IF Head(readings).is_tdb /\ ~Head(readings).segment.ok
    THEN ProcessReading(acc, Head(readings), received_at)
  ELSE ProcessUntilFailure(ProcessReading(acc, Head(readings), received_at),
                           Tail(readings), received_at)

\* Lines 121-171: the for loop over the sentences of the call.
RECURSIVE ProcessAll(_, _, _)
ProcessAll(acc, readings, received_at) ==
  IF readings = <<>> THEN acc
  ELSE ProcessAll(ProcessReading(acc, Head(readings), received_at),
                  Tail(readings), received_at)

\* Lines 109-116: the exception the argument checks of reassemble_sentences
\* raise, or None. sentences_type is the Python type of the sentences
\* argument, received_at is None or Some(time).
ArgumentError(sentences_type, received_at) ==
  IF sentences_type = "NoneType" THEN Some("ValueError")
  ELSE IF sentences_type # "list" THEN Some("TypeError")
  ELSE IF received_at = None THEN Some("ValueError")
  ELSE None

\* Variant: the expiry pass runs as soon as there is a timestamp, before the
\* arguments are checked.
reassemble_sentences_expiring_first(st, sentences_type, readings, received_at) ==
  IF ArgumentError(sentences_type, received_at) # None
    THEN [st |-> IF received_at = None THEN st
                 ELSE _expire_groups(st, received_at[1]),
          results |-> <<>>,
          raised |-> ArgumentError(sentences_type, received_at)]
  ELSE ProcessAll([st |-> _expire_groups(st, received_at[1]), results |-> <<>>],
                  readings, received_at[1])
         @@ [raised |-> None]

\* Variant: the expiry pass runs after the sentences have been processed.
reassemble_sentences_expiring_last(st, sentences_type, readings, received_at) ==
  IF ArgumentError(sentences_type, received_at) # None
    THEN [st |-> st, results |-> <<>>,
          raised |-> ArgumentError(sentences_type, received_at)]
  ELSE [ProcessAll([st |-> st, results |-> <<>>], readings, received_at[1])
          EXCEPT !.st = _expire_groups(@, received_at[1])]
         @@ [raised |-> None]

\* reassemble_sentences(sentences, received_at): sentences of the Python type
\* sentences_type, its str items given by their readings, received_at None
\* or Some(time). Returns [st, results, raised], raised being None when the
\* method returned its results and Some(exception) when it raised.
reassemble_sentences(st, sentences_type, readings, received_at) ==
  IF ArgumentError(sentences_type, received_at) # None
    THEN [st |-> st, results |-> <<>>,
          raised |-> ArgumentError(sentences_type, received_at)]
  ELSE ProcessAll([st |-> _expire_groups(st, received_at[1]), results |-> <<>>],
                  readings, received_at[1])
         @@ [raised |-> None]

\* finalize_pending_groups_as_boundary_failure(): returns [st, ret].
\* Variant: the groups are counted after they have been closed.
finalize_counting_afterwards(st) ==
  LET done == MarkEach(st, DOMAIN st.groups, "boundary")
  IN  [st |-> done, ret |-> Cardinality(DOMAIN done.groups)]

finalize_pending_groups_as_boundary_failure(st) ==
  LET pending_group_keys == DOMAIN st.groups
  IN  [st |-> MarkEach(st, pending_group_keys, "boundary"),
       ret |-> Cardinality(pending_group_keys)]

get_split_reconstruct_counts(st) == <<st.success, st.failure>>

\* ------------------------------------------------- send_src: VETMK parser

VETMK_MARK == <<"$", "V", "E", "T", "M", "K">>

\* str.find(text): the 0-based position of the first occurrence, or -1.
find_text(s, text) ==
  LET hits == {i \in 1..(Len(s) - Len(text) + 1) : SubSeq(s, i, i + Len(text) - 1) = text}
  IN  IF hits = {} THEN 0 - 1
      ELSE (CHOOSE i \in hits : \A j \in hits : i <= j) - 1

\* s.splitlines()[0] of a non-empty s: the text before the first line break.
first_line(s) ==
  LET breaks == {i \in 1..Len(s) : s[i] \in {"\n", "\r"}}
  IN  IF breaks = {} THEN s
      ELSE SubSeq(s, 1, (CHOOSE i \in breaks : \A j \in breaks : i <= j) - 1)

\* Variant: the sequence field is not looked at.
ExtractFlagAnySequence(received_text) ==
  LET sentence_start_index == find_text(received_text, VETMK_MARK)
      vetmk_sentence == first_line(slice(received_text, sentence_start_index,
                                         Len(received_text)))
      vetmk_body == split_first(vetmk_sentence, "*")
      sentence_fields == split(vetmk_body, ",")
  IN  IF sentence_start_index < 0 THEN None
      ELSE IF Len(sentence_fields) < 3 THEN None
      ELSE IF strip(sentence_fields[1]) # VETMK_MARK THEN None
      ELSE IF int(strip(sentence_fields[3])).ok
             THEN Some(int(strip(sentence_fields[3])).value)
      ELSE None

\* extract_vetmk_flag: Some(flag), or None when the text gives no flag.
extract_vetmk_flag(received_text) ==
  LET sentence_start_index == find_text(received_text, VETMK_MARK)
      vetmk_sentence == first_line(slice(received_text, sentence_start_index,
                                         Len(received_text)))
      vetmk_body == split_first(vetmk_sentence, "*")
      sentence_fields == split(vetmk_body, ",")
  IN  IF sentence_start_index < 0 THEN None
      ELSE IF Len(sentence_fields) < 3 THEN None
      ELSE IF strip(sentence_fields[1]) # VETMK_MARK THEN None
      ELSE IF strip(sentence_fields[2]) # <<"0">> THEN None
      ELSE IF int(strip(sentence_fields[3])).ok
             THEN Some(int(strip(sentence_fields[3])).value)
      ELSE None

\* ------------------------------------------------- send_src: queue, timeouts

\* RESPONSE_FLAG_WAIT_TIMEOUT_SECONDS = 0.2, in milliseconds.
RESPONSE_FLAG_WAIT_TIMEOUT_MILLISECONDS == 200

\* consts/receive_constants.py RECEIVE_SOCKET_TIMEOUT_SECONDS, in
\* milliseconds: a short, positive time.
RECEIVE_SOCKET_TIMEOUT_MILLISECONDS == 1000

\* Variant: the sender waits on the channel without a timeout.
WaitForever == None

\* The timeout of response_flag_queue.get() in _wait_for_next_send_trigger.
WaitTimeout == Some(RESPONSE_FLAG_WAIT_TIMEOUT_MILLISECONDS)

\* Variant: the notification puts nothing on the queue.
NotifyNothing(send_count_queue, send_count) == send_count_queue

\* _notify_send_count: the put on the parent's queue, which is created
\* without a maxsize and is never closed by the child.
_notify_send_count(send_count_queue, send_count) == Append(send_count_queue, send_count)

\* Variant: every flag that ends the wait counts as a completed send.
CountAnyFlag(sent_count, response_flag) == sent_count + 1

\* run_periodic_udp_send after the wait returned a flag: the new sent_count.
CountCompletedSend(sent_count, response_flag) ==
  IF response_flag = 1 THEN sent_count + 1 ELSE sent_count

\* _wait_for_next_send_trigger: flag 0 keeps the wait going.
\* Variant: the wait returns whatever flag it gets.
KeepsWaitingNever(response_flag) == FALSE

KeepsWaiting(response_flag) == response_flag = 0

\* The texts of the datagrams the receive socket delivers.
DatagramTexts ==
  << <<"$", "V", "E", "T", "M", "K", ",", "0", ",", "0", "*", "0", "0">>,
     <<"$", "V", "E", "T", "M", "K", ",", "0", ",", "1", "*", "0", "0", "\r", "\n">>,
     <<"$", "V", "E", "T", "M", "K", ",", "0", ",", "2", "*", "0", "0">>,
     <<"$", "V", "E", "T", "M", "K", ",", "1", ",", "1", "*", "0", "0">> >>

DatagramFlags == [n \in 1..Len(DatagramTexts) |-> extract_vetmk_flag(DatagramTexts[n])]

\* ----------------------------------------------------- datetime and timing

\* A datetime is [minute, second, microsecond, tzinfo]: minute counts the
\* wall-clock minutes from the start of the day of the run, tzinfo is None
\* (naive) or Some(UTC offset in minutes).
UTC == Some(0)
Datetime(minute, second, microsecond, tzinfo) ==
  [minute |-> minute, second |-> second, microsecond |-> microsecond,
   tzinfo |-> tzinfo]

\* datetime.astimezone(UTC) of an aware datetime.
astimezone_utc(timestamp) ==
  [timestamp EXCEPT !.minute = @ - timestamp.tzinfo[1], !.tzinfo = UTC]

\* utils/datetime_utils.py normalize_utc_datetime, and the same lines inside
\* the functions of send_src utils/measurement_timing.py.
normalize_utc_datetime(timestamp_utc) ==
  IF timestamp_utc.tzinfo = None THEN [timestamp_utc EXCEPT !.tzinfo = UTC]
  ELSE astimezone_utc(timestamp_utc)

\* timedelta.total_seconds() of the time from the start of the day (UTC) to
\* an aware UTC datetime, in microseconds.
Microseconds(utc) == (utc.minute * 60 + utc.second) * 1000000 + utc.microsecond

\* src udp_receiver.py _resolve_next_minute_boundary_utc.
_resolve_next_minute_boundary_utc(timestamp_utc) ==
  LET normalized_utc == normalize_utc_datetime(timestamp_utc)
      current_minute_floor_utc == [normalized_utc EXCEPT !.second = 0, !.microsecond = 0]
  IN  [current_minute_floor_utc EXCEPT !.minute = @ + 1]

\* Variant: the following minute is returned for every input.
ResolveStartAlwaysNext(current_utc) == _resolve_next_minute_boundary_utc(current_utc)

\* send_src measurement_timing.py resolve_measurement_start_boundary_utc.
resolve_measurement_start_boundary_utc(current_utc) ==
  LET normalized_utc == normalize_utc_datetime(current_utc)
      current_minute_floor == [normalized_utc EXCEPT !.second = 0, !.microsecond = 0]
  IN  IF normalized_utc.second = 0 /\ normalized_utc.microsecond = 0
        THEN normalized_utc
      ELSE [current_minute_floor EXCEPT !.minute = @ + 1]

\* Variant: the difference is returned as it is, negative or not.
WaitDifference(target_boundary_utc, current_utc) ==
  Microseconds(normalize_utc_datetime(target_boundary_utc))
    - Microseconds(normalize_utc_datetime(current_utc))

\* send_src measurement_timing.py calculate_wait_seconds_until_boundary; the
\* returned seconds are given in microseconds.
calculate_wait_seconds_until_boundary(target_boundary_utc, current_utc) ==
  LET normalized_target_utc == normalize_utc_datetime(target_boundary_utc)
      normalized_current_utc == normalize_utc_datetime(current_utc)
      wait_seconds == Microseconds(normalized_target_utc) - Microseconds(normalized_current_utc)
  IN  IF wait_seconds < 0 THEN 0 ELSE wait_seconds

\* Timestamps given to the timing functions: around the minute boundaries
\* of two minutes, naive, UTC and UTC+09:00.
BoundaryOffsets ==
  { <<0, 0>>, <<0, 1>>, <<0, 999999>>, <<1, 0>>, <<30, 500000>>,
    <<59, 0>>, <<59, 999999>> }

Timestamps ==
  { Datetime(minute + IF tzinfo = None THEN 0 ELSE tzinfo[1], offset[1], offset[2], tzinfo) :
      minute \in 0..1, offset \in BoundaryOffsets, tzinfo \in {None, UTC, Some(540)} }

\* ------------------------------------------ src udp_receiver.py: functions

\* str.splitlines() for the line breaks \n, \r and \r\n.
RECURSIVE splitlines(_)
splitlines(s) ==
  LET breaks == {i \in 1..Len(s) : s[i] \in {"\n", "\r"}}
      k == CHOOSE i \in breaks : \A j \in breaks : i <= j
      skip == IF s[k] = "\r" /\ k < Len(s) /\ s[k + 1] = "\n" THEN k + 1 ELSE k
  IN  IF s = <<>> THEN <<>>
      ELSE IF breaks = {} THEN <<s>>
      ELSE <<SubSeq(s, 1, k - 1)>> \o splitlines(SubSeq(s, skip + 1, Len(s)))

_is_tdb_sentence_token(token) ==
  LET normalized_token == strip(token)
  IN  Len(normalized_token) = TDB_TOKEN_LENGTH /\ endswith(normalized_token, TDB_TOKEN_SUFFIX)

\* Variant: only the first start mark of the line is examined.
ScanFirstMarkOnly(raw_line, sentence_start_index) ==
  LET comma_index == find(raw_line, NMEA_FIELD_SEPARATOR, sentence_start_index)
      sentence_token == slice(raw_line, sentence_start_index + 1, comma_index)
      tdb_sentence == strip(slice(raw_line, sentence_start_index, Len(raw_line)))
  IN  IF sentence_start_index < 0 THEN None
      ELSE IF comma_index < 0 THEN None
      ELSE IF _is_tdb_sentence_token(sentence_token) /\ tdb_sentence # <<>>
        THEN Some(tdb_sentence)
      ELSE None

\* _extract_target_tdb_sentences, the while loop over one line: None or
\* Some(sentence).
RECURSIVE ScanLine(_, _)
ScanLine(raw_line, sentence_start_index) ==
  LET comma_index == find(raw_line, NMEA_FIELD_SEPARATOR, sentence_start_index)
      sentence_token == slice(raw_line, sentence_start_index + 1, comma_index)
      tdb_sentence == strip(slice(raw_line, sentence_start_index, Len(raw_line)))
  IN  IF sentence_start_index < 0 THEN None
      ELSE IF comma_index < 0 THEN None
      ELSE IF _is_tdb_sentence_token(sentence_token)
        THEN IF tdb_sentence # <<>> THEN Some(tdb_sentence) ELSE None
      ELSE ScanLine(raw_line,
                    find(raw_line, NMEA_SENTENCE_START_MARK, sentence_start_index + 1))

RECURSIVE ScanLines(_)
ScanLines(lines) ==
  IF lines = <<>> THEN <<>>
  ELSE ScanLine(Head(lines), find(Head(lines), NMEA_SENTENCE_START_MARK, 0))
         \o ScanLines(Tail(lines))

_extract_target_tdb_sentences(received_text) == ScanLines(splitlines(received_text))

\* Variant: a sentence without a payload field counts with zero characters.
PayloadCharCountOrZero(tdb_sentence) ==
  LET sentence_body == split_first(tdb_sentence, NMEA_CHECKSUM_SEPARATOR)
      sentence_fields == split(sentence_body, NMEA_FIELD_SEPARATOR)
  IN  IF Len(sentence_fields) <= TDB_FIELD_PAYLOAD_POSITION THEN Some(0)
      ELSE Some(Len(At(sentence_fields, TDB_FIELD_PAYLOAD_POSITION)))

\* _extract_payload_char_count: None or Some(count).
_extract_payload_char_count(tdb_sentence) ==
  LET sentence_body == split_first(tdb_sentence, NMEA_CHECKSUM_SEPARATOR)
      sentence_fields == split(sentence_body, NMEA_FIELD_SEPARATOR)
  IN  IF Len(sentence_fields) <= TDB_FIELD_PAYLOAD_POSITION THEN None
      ELSE Some(Len(At(sentence_fields, TDB_FIELD_PAYLOAD_POSITION)))

\* Variant: the window is derived again for every fragment.
StartWindowEveryTime(first_tdb_received_utc, measurement_end_utc, sentence_received_utc) ==
  <<Some(sentence_received_utc), Some(_resolve_next_minute_boundary_utc(sentence_received_utc))>>

\* _start_measurement_window_if_needed: the pair (start, end).
_start_measurement_window_if_needed(first_tdb_received_utc, measurement_end_utc, sentence_received_utc) ==
  IF first_tdb_received_utc # None /\ measurement_end_utc # None
    THEN <<first_tdb_received_utc, measurement_end_utc>>
  ELSE <<Some(sentence_received_utc),
         Some(_resolve_next_minute_boundary_utc(sentence_received_utc))>>

\* Variant: a window that was never derived counts as ended.
EndReachedWithoutWindow(measurement_end_utc, current_utc) ==
  IF measurement_end_utc = None THEN TRUE
  ELSE Microseconds(current_utc) >= Microseconds(measurement_end_utc[1])

\* Variant: the end counts as reached only after the end time.
EndReachedOnlyAfter(measurement_end_utc, current_utc) ==
  IF measurement_end_utc = None THEN FALSE
  ELSE Microseconds(current_utc) > Microseconds(measurement_end_utc[1])

\* _is_measurement_end_reached.
_is_measurement_end_reached(measurement_end_utc, current_utc) ==
  IF measurement_end_utc = None THEN FALSE
  ELSE Microseconds(current_utc) >= Microseconds(measurement_end_utc[1])

ReceivedTdbSentenceRecord(received_utc, tdb_sentence) ==
  [received_utc |-> received_utc, tdb_sentence |-> tdb_sentence]

\* _accumulate_reassembled_sentences over the aggregation state.
RECURSIVE _accumulate_reassembled_sentences(_, _, _)
_accumulate_reassembled_sentences(reassembled_sentences, sentence_received_utc, state) ==
  LET payload_char_count == _extract_payload_char_count(Head(reassembled_sentences))
      counted ==
        IF payload_char_count = None THEN state
        ELSE [state EXCEPT
                !.rx_tdb_count = @ + 1,
                !.rx_payload_chars_total = @ + payload_char_count[1],
                !.received_tdb_sentence_records =
                   Append(@, ReceivedTdbSentenceRecord(sentence_received_utc,
                                                       Head(reassembled_sentences)))]
  IN  IF reassembled_sentences = <<>> THEN state
      ELSE _accumulate_reassembled_sentences(Tail(reassembled_sentences),
                                             sentence_received_utc, counted)

\* The datetime the reassembler is given, in the seconds its model counts.
TotalSeconds(utc) == utc.minute * 60 + utc.second

\* A sentence with a space between the start mark and the sentence type.
SpacedToken(fields) ==
  <<"!", " ", "V", "A", "T", "D", "B", ",">> \o join(fields, <<",">>) \o <<"*", "0", "0">>

\* The texts of the datagrams the metrics socket delivers: well-formed
\* fragments, an acknowledgement, a fragment sentence with too few fields,
\* a datagram of four fragment sentences that fail parsing (fill out of
\* range, empty payload, total no integer, index above total) and a
\* datagram of two sentences with a space before the sentence type, one
\* without and one with a payload field.
MetricsDatagramTexts ==
  << Fragment(1, 1),
     Fragment(2, 1) \o <<"\r", "\n">> \o Fragment(2, 2) \o <<"\n">>,
     <<"$", "V", "E", "T", "M", "K", ",", "0", ",", "1", "*", "0", "0">>,
     <<"!", "V", "A", "T", "D", "B", ",", "2", ",", "X">>,
     Fragment(2, 2),
     WithField(2, 1, TDB_FIELD_FILL_POSITION, <<"6">>) \o <<"\n">>
       \o WithField(2, 2, TDB_FIELD_PAYLOAD_POSITION, <<>>) \o <<"\n">>
       \o WithField(2, 1, TDB_FIELD_TOTAL_POSITION, <<"X">>) \o <<"\n">>
       \o WithField(2, 2, TDB_FIELD_SEGMENT_INDEX_POSITION, <<"3">>),
     SpacedToken(<<<<"2">>, <<"X">>>>) \o <<"\n">> \o SpacedToken(Fields(2, 1)) >>

MetricsTargetSentences ==
  [n \in 1..Len(MetricsDatagramTexts) |-> _extract_target_tdb_sentences(MetricsDatagramTexts[n])]

MetricsReadings ==
  [sentence \in UNION {{MetricsTargetSentences[n][k] : k \in 1..Len(MetricsTargetSentences[n])} :
                         n \in 1..Len(MetricsDatagramTexts)}
     |-> Reading(sentence)]

\* Variant: the receive socket is left without a timeout.
ReceiveWithoutTimeout == None

\* udp_socket.settimeout(RECEIVE_SOCKET_TIMEOUT_SECONDS) of the metrics socket.
ReceiveTimeout == Some(RECEIVE_SOCKET_TIMEOUT_MILLISECONDS)

\* _ReceiveAggregationState()
_ReceiveAggregationState ==
  [rx_tdb_count |-> 0, rx_payload_chars_total |-> 0,
   first_tdb_received_utc |-> None, measurement_end_utc |-> None,
   received_tdb_sentence_records |-> <<>>,
   tdb_sentence_reassembler |->
     [groups |-> EmptyDict, success |-> 0, failure |-> 0, log |-> <<>>, closed |-> <<>>]]

\* Variant: the window is started only by a sentence that parses.
ProcessStartingWindowWhenParsed(tdb_sentence, state, sentence_received_utc) ==
  LET window == IF MetricsReadings[tdb_sentence].is_tdb
                     /\ MetricsReadings[tdb_sentence].segment.ok
                  THEN _start_measurement_window_if_needed(
                         state.first_tdb_received_utc, state.measurement_end_utc,
                         sentence_received_utc)
                ELSE <<state.first_tdb_received_utc, state.measurement_end_utc>>
      reassembled == reassemble_sentences(
                       [state.tdb_sentence_reassembler EXCEPT !.log = <<>>, !.closed = <<>>],
                       "list", <<MetricsReadings[tdb_sentence]>>,
                       Some(TotalSeconds(sentence_received_utc)))
      started == [state EXCEPT !.first_tdb_received_utc = window[1],
                               !.measurement_end_utc = window[2],
                               !.tdb_sentence_reassembler = reassembled.st]
  IN  IF _is_measurement_end_reached(state.measurement_end_utc, sentence_received_utc)
        THEN [state |-> state, should_stop |-> TRUE, passed |-> FALSE]
      ELSE [state |-> _accumulate_reassembled_sentences(
                        reassembled.results, sentence_received_utc, started),
            should_stop |-> FALSE, passed |-> TRUE]

\* _process_target_tdb_sentence at the time sentence_received_utc:
\* [state, should_stop, passed], passed telling whether the reassembler was
\* called.
_process_target_tdb_sentence(tdb_sentence, state, sentence_received_utc) ==
  LET window == _start_measurement_window_if_needed(
                  state.first_tdb_received_utc, state.measurement_end_utc,
                  sentence_received_utc)
      reassembled == reassemble_sentences(
                       [state.tdb_sentence_reassembler EXCEPT !.log = <<>>, !.closed = <<>>],
                       "list", <<MetricsReadings[tdb_sentence]>>,
                       Some(TotalSeconds(sentence_received_utc)))
      started == [state EXCEPT !.first_tdb_received_utc = window[1],
                               !.measurement_end_utc = window[2],
                               !.tdb_sentence_reassembler = reassembled.st]
  IN  IF _is_measurement_end_reached(state.measurement_end_utc, sentence_received_utc)
        THEN [state |-> state, should_stop |-> TRUE, passed |-> FALSE]
      ELSE [state |-> _accumulate_reassembled_sentences(
                        reassembled.results, sentence_received_utc, started),
            should_stop |-> FALSE, passed |-> TRUE]

\* ----------------------------------------------------------- input lists

\* The sentence lists of one call: the receive loop passes one sentence per
\* call, the expiry pass alone is a call with an empty list.
\* A list is given by the numbers of its sentences in SentenceList.
\* The place of a sentence in SentenceList.
SentenceNumber(sentence) ==
  CHOOSE n \in 1..Len(SentenceList) : SentenceList[n] = sentence

VETMK_SENTENCE == <<"$", "V", "E", "T", "M", "K", ",", "0", ",", "1", "*", "0", "0">>

\* The sentence lists of the calls: the empty list, every one-sentence
\* list, every sentence followed by the fragment that completes the
\* smallest group, and every malformed fragment between two sentences that
\* are passed through.
Batches ==
  {<<>>} \cup {<<n>> : n \in 1..Len(SentenceList)}
  \cup {<<n, SentenceNumber(Fragment(2, 2))>> : n \in 1..Len(SentenceList)}
  \cup {<<SentenceNumber(VETMK_SENTENCE), SentenceNumber(malformed),
          SentenceNumber(Fragment(1, 1))>> : malformed \in MalformedFragments}

Times == {0} \cup {TDB_GROUP_EXPIRY_SECONDS + late : late \in 0..MaxLate}

\* Calls of reassemble_sentences whose arguments fail its checks: no
\* sentence list, a tuple instead of a list, no timestamp.
InvalidArguments ==
  {[sentences_type |-> "NoneType", batch |-> <<>>, received_at |-> received_at] :
     received_at \in {None} \cup {Some(t) : t \in Times}}
  \cup
  {[sentences_type |-> "tuple", batch |-> batch, received_at |-> received_at] :
     batch \in {<<>>, <<1>>}, received_at \in {None} \cup {Some(t) : t \in Times}}
  \cup
  {[sentences_type |-> "list", batch |-> batch, received_at |-> None] :
     batch \in {<<>>, <<1>>}}

\* ----------------------------------------------------------------- state

VARIABLES
  groups,                           \* TdbSentenceReassembler._groups
  split_reconstruct_success_count,  \* ._split_reconstruct_success_count
  split_reconstruct_failure_count,  \* ._split_reconstruct_failure_count
  pc,                               \* the caller: "idle", "called", "returned"
  call,                             \* the call being made: None or Some(call)
  before,                           \* the reassembler when the method started
  last_op,                          \* the method called before this one
  results,                          \* the list reassemble_sentences returned
  pending_count,                    \* the value the finalize call returned
  log,                              \* warnings of the call
  closed,                           \* groups removed from _groups by the call
  raised                            \* the exception the call raised: None or Some

reassembler_vars ==
  <<groups, split_reconstruct_success_count, split_reconstruct_failure_count,
    pc, call, before, last_op, results, pending_count, log, closed, raised>>

VARIABLES
  stop_event,            \* the shared multiprocessing.Event
  response_flag_queue,   \* acknowledgement channel, receive unit -> send unit
  send_count_queue,      \* send unit -> parent process
  send_pc,               \* run_periodic_udp_send: the line it is at
  send_exit,             \* how run_periodic_udp_send left its loop
  sent_count,            \* run_periodic_udp_send.sent_count
  response_flag,         \* run_periodic_udp_send.response_flag: None or Some
  flags_taken,           \* the flags the wait has taken from the channel
  receive_pc,            \* run_multicast_udp_receive: the line it is at
  socket_timeout,        \* the receive socket's timeout: None or Some
  received_flag,         \* run_multicast_udp_receive.response_flag
  datagrams,             \* datagrams taken from the receive socket
  full_warnings,         \* warnings logged for a full acknowledgement channel
  origins                \* history of the flags in flight (see Received)

send_vars ==
  <<stop_event, response_flag_queue, send_count_queue, send_pc, send_exit,
    sent_count, response_flag, flags_taken, receive_pc, socket_timeout,
    received_flag, datagrams, full_warnings, origins>>

VARIABLES
  metrics_pc,            \* collect_receive_metrics_until_next_minute_boundary: its line
  clock,                 \* the wall clock of the metrics receiver, in seconds
  state,                 \* its _ReceiveAggregationState
  target_sentences,      \* sentences of the current datagram still to process
  received_datagrams,    \* datagrams taken from the metrics socket
  passed,                \* the received_at of every call of the reassembler
  processed,             \* the sentence of every call of the reassembler
  windows,               \* the (start, end) pairs the window derivation has set
  metrics_result         \* what the function gave its caller: None or Some

metrics_vars ==
  <<metrics_pc, clock, state, target_sentences, received_datagrams, passed,
    processed, windows, metrics_result>>

VARIABLES
  fn,                    \* the function applied last
  args,                  \* its arguments
  ret                    \* its result

function_vars == <<fn, args, ret>>

VARIABLES
  upload_pc,               \* upload_report_file_until_success: the line it is at
  local_report_file_path,  \* its argument, None before the call: the name
                           \* and whether the file exists
  remote_report_path,      \* its local remote_report_path: None or Some
  sftp_client,             \* its locals ssh_client, sftp_client: None or Some
  open_calls,              \* calls of open_sftp_connection
  put_calls,               \* calls of sftp_client.put
  close_calls,             \* the clients given to each close_sftp_connection call
  sleeps,                  \* the seconds of each time.sleep call
  attempts,                \* how each pass of the loop ended
  upload_result            \* the value returned: None or Some

upload_vars ==
  <<upload_pc, local_report_file_path, remote_report_path, sftp_client,
    open_calls, put_calls, close_calls, sleeps, attempts, upload_result>>

\* What each component leaves untouched.
outside_reassembler == <<send_vars, metrics_vars, function_vars, upload_vars>>
outside_send == <<reassembler_vars, metrics_vars, function_vars, upload_vars>>
outside_metrics == <<reassembler_vars, send_vars, function_vars, upload_vars>>
outside_functions == <<reassembler_vars, send_vars, metrics_vars, upload_vars>>
outside_upload == <<reassembler_vars, send_vars, metrics_vars, function_vars>>

vars == <<reassembler_vars, send_vars, metrics_vars, function_vars, upload_vars>>

\* The reassembler as the record the operators above work on, the journals
\* of the call starting empty.
Reassembler ==
  [groups |-> groups, success |-> split_reconstruct_success_count,
   failure |-> split_reconstruct_failure_count, log |-> <<>>, closed |-> <<>>]

Store(st) ==
  /\ groups' = st.groups
  /\ split_reconstruct_success_count' = st.success
  /\ split_reconstruct_failure_count' = st.failure
  /\ log' = st.log
  /\ closed' = st.closed

\* History of the acknowledgement flags, kept beside the channel. For the
\* flag the receive unit holds (held), for each flag in the channel (queue,
\* in the channel's order) and for each flag the wait has taken (taken, in
\* the order of flags_taken): after_send tells that recvfrom returned the
\* flag after a sendto of the send unit, before_send that another sendto has
\* followed since, before_clear that the flag was in the channel when
\* _clear_response_flag_queue looked into it. sent tells that a sendto has
\* sent, taken_at_send how many flags the wait had taken when the latest
\* sendto sent, discarded counts the flags the clearing has removed.
NewFlag(after_send) ==
  [after_send |-> after_send, before_send |-> FALSE, before_clear |-> FALSE]

\* recvfrom has returned a datagram.
Received(history) == [history EXCEPT !.held = NewFlag(history.sent)]

\* put_nowait has queued the flag held.
Queued(history) == [history EXCEPT !.queue = Append(@, history.held)]

\* One get_nowait of _clear_response_flag_queue: every flag it finds in the
\* channel has been there during the clearing, the first one is removed.
Cleared(history) ==
  IF history.queue = <<>> THEN history
  ELSE [history EXCEPT
          !.queue = [i \in 1..(Len(history.queue) - 1) |->
                      [history.queue[i + 1] EXCEPT !.before_clear = TRUE]],
          !.discarded = @ + 1]

\* sendto has sent: every flag received so far was received before it.
Transmitted(history) ==
  [history EXCEPT
     !.sent = TRUE,
     !.taken_at_send = Len(history.taken),
     !.held = [@ EXCEPT !.before_send = TRUE],
     !.queue = [i \in 1..Len(history.queue) |->
                 [history.queue[i] EXCEPT !.before_send = TRUE]]]

\* get(timeout) of the wait has taken the first flag of the channel.
Taken(history) ==
  [history EXCEPT !.queue = Tail(@), !.taken = Append(@, Head(history.queue))]

\* The two child processes of send_src/src/main.py as they are started: the
\* queues empty, the event clear.
SendInit ==
  /\ stop_event = FALSE
  /\ response_flag_queue = <<>>
  /\ send_count_queue = <<>>
  /\ send_pc = "check_stop"
  /\ send_exit = None
  /\ sent_count = 0
  /\ response_flag = None
  /\ flags_taken = <<>>
  /\ receive_pc = "setup"
  /\ socket_timeout = None
  /\ received_flag = None
  /\ datagrams = 0
  /\ full_warnings = 0
  /\ origins = [held |-> NewFlag(FALSE), queue |-> <<>>, taken |-> <<>>,
                sent |-> FALSE, taken_at_send |-> 0, discarded |-> 0]

\* collect_receive_metrics_until_next_minute_boundary has been called, at
\* the start of a minute of the clock.
MetricsInit ==
  /\ metrics_pc = "initialize"
  /\ clock = 0
  /\ state = _ReceiveAggregationState
  /\ target_sentences = <<>>
  /\ received_datagrams = 0
  /\ passed = <<>>
  /\ processed = <<>>
  /\ windows = <<>>
  /\ metrics_result = None

\* No function has been applied.
FunctionInit ==
  /\ fn = "none"
  /\ args = <<>>
  /\ ret = None

\* The report files upload_report_file_until_success is called with: names
\* of the form REPORT_YYYYMMDD_HHMMSS.jsonl, the file being there or not.
ReportFileNames ==
  { <<"R", "E", "P", "O", "R", "T", "_", "2", "0", "2", "6", "0",
    "1", "0", "1", "_", "0", "0", "0", "0", "0", "0", ".", "j",
    "s", "o", "n", "l">>,
    <<"R", "E", "P", "O", "R", "T", "_", "2", "0", "2", "6", "0",
    "1", "0", "2", "_", "2", "3", "5", "9", "5", "9", ".", "j",
    "s", "o", "n", "l">> }

\* upload_report_file_until_success has not been called.
UploadInit ==
  /\ upload_pc = "idle"
  /\ local_report_file_path = None
  /\ remote_report_path = None
  /\ sftp_client = None
  /\ open_calls = 0
  /\ put_calls = 0
  /\ close_calls = <<>>
  /\ sleeps = <<>>
  /\ attempts = <<>>
  /\ upload_result = None

\* TdbSentenceReassembler.__init__
Init ==
  /\ SendInit
  /\ MetricsInit
  /\ FunctionInit
  /\ UploadInit
  /\ groups = EmptyDict
  /\ split_reconstruct_success_count = 0
  /\ split_reconstruct_failure_count = 0
  /\ pc = "idle"
  /\ call = None
  /\ before = None
  /\ last_op = "__init__"
  /\ results = <<>>
  /\ pending_count = 0
  /\ log = <<>>
  /\ closed = <<>>
  /\ raised = None

\* The owner of the reassembler calls one of its two methods with its
\* arguments; the method body runs in the next step.
Call ==
  /\ pc = "idle"
  /\ pc' = "called"
  /\ \/ \E batch \in Batches, received_at \in Times :
          call' = Some([op |-> "reassemble_sentences",
                        sentences_type |-> "list",
                        batch |-> batch,
                        sentences |-> [k \in 1..Len(batch) |-> SentenceList[batch[k]]],
                        received_at |-> Some(received_at)])
     \/ \E arguments \in InvalidArguments :
          call' = Some([op |-> "reassemble_sentences",
                        sentences_type |-> arguments.sentences_type,
                        batch |-> arguments.batch,
                        sentences |-> [k \in 1..Len(arguments.batch)
                                        |-> SentenceList[arguments.batch[k]]],
                        received_at |-> arguments.received_at])
     \/ call' = Some([op |-> "finalize_pending_groups_as_boundary_failure"])
  /\ UNCHANGED <<groups, split_reconstruct_success_count,
                 split_reconstruct_failure_count, before, last_op, results,
                 pending_count, log, closed, raised, outside_reassembler>>

\* reassemble_sentences runs from its first line to its return or to the
\* exception it raises.
Reassemble ==
  /\ pc = "called"
  /\ call[1].op = "reassemble_sentences"
  /\ \E done \in {reassemble_sentences(
                    Reassembler,
                    call[1].sentences_type,
                    [k \in 1..Len(call[1].batch) |-> Readings[call[1].batch[k]]],
                    call[1].received_at)} :
        /\ Store(done.st)
        /\ results' = done.results
        /\ raised' = done.raised
        /\ pc' = IF done.raised = None THEN "returned" ELSE "raised"
  /\ before' = Some(Reassembler)
  /\ UNCHANGED <<call, last_op, pending_count, outside_reassembler>>

\* finalize_pending_groups_as_boundary_failure runs to its return.
Finalize ==
  /\ pc = "called"
  /\ call[1].op = "finalize_pending_groups_as_boundary_failure"
  /\ \E done \in {finalize_pending_groups_as_boundary_failure(Reassembler)} :
        /\ Store(done.st)
        /\ pending_count' = done.ret
  /\ before' = Some(Reassembler)
  /\ pc' = "returned"
  /\ UNCHANGED <<call, last_op, results, raised, outside_reassembler>>

\* The caller has taken the returned value, or caught the exception, and
\* goes on.
TakeResult ==
  /\ pc \in {"returned", "raised"}
  /\ pc' = "idle"
  /\ call' = None
  /\ before' = None
  /\ last_op' = call[1].op
  /\ results' = <<>>
  /\ pending_count' = 0
  /\ log' = <<>>
  /\ closed' = <<>>
  /\ raised' = None
  /\ UNCHANGED <<groups, split_reconstruct_success_count,
                 split_reconstruct_failure_count, outside_reassembler>>

Next == Call \/ Reassemble \/ Finalize \/ TakeResult

Spec == Init /\ [][Next]_vars

\* ----------------------------------------- send_src: the two child processes

SendLoopLines == {"check_stop", "clear", "sendto", "wait_check", "wait_get", "judge"}
ReceiveLoopLines == {"check_stop", "recvfrom", "put_nowait"}

sender_locals == <<send_pc, send_exit, sent_count, response_flag, flags_taken>>
receiver_locals == <<receive_pc, socket_timeout, received_flag, datagrams, full_warnings>>

\* The parent process sets the stop event (main.py, finally).
SetStop ==
  /\ ~stop_event
  /\ stop_event' = TRUE
  /\ UNCHANGED <<response_flag_queue, send_count_queue, sender_locals,
                 receiver_locals, origins, outside_send>>

\* run_periodic_udp_send, top of the loop: the stop check.
SendCheckStop ==
  /\ send_pc = "check_stop"
  /\ IF stop_event
       THEN send_pc' = "notify" /\ send_exit' = Some("stop_before_send")
     ELSE send_pc' = "clear" /\ UNCHANGED send_exit
  /\ UNCHANGED <<stop_event, response_flag_queue, send_count_queue, sent_count,
                 response_flag, flags_taken, receiver_locals, origins, outside_send>>

\* Variant: the clearing removes one flag and does not look for another.
SendClearOneFlag ==
  /\ send_pc = "clear"
  /\ response_flag_queue' = IF response_flag_queue # <<>>
                              THEN Tail(response_flag_queue) ELSE <<>>
  /\ send_pc' = "sendto"
  /\ origins' = Cleared(origins)
  /\ UNCHANGED <<stop_event, send_count_queue, send_exit, sent_count,
                 response_flag, flags_taken, receiver_locals, outside_send>>

\* _clear_response_flag_queue: one get_nowait; Empty ends the clearing.
SendClear ==
  /\ send_pc = "clear"
  /\ IF response_flag_queue # <<>>
       THEN response_flag_queue' = Tail(response_flag_queue) /\ UNCHANGED send_pc
     ELSE send_pc' = "sendto" /\ UNCHANGED response_flag_queue
  /\ origins' = Cleared(origins)
  /\ UNCHANGED <<stop_event, send_count_queue, send_exit, sent_count,
                 response_flag, flags_taken, receiver_locals, outside_send>>

\* udp_socket.sendto: sent (and recorded), or OSError and back to the top.
SendTo ==
  /\ send_pc = "sendto"
  /\ \/ send_pc' = "wait_check" /\ origins' = Transmitted(origins)
     \/ send_pc' = "check_stop" /\ UNCHANGED origins
  /\ UNCHANGED <<stop_event, response_flag_queue, send_count_queue, send_exit,
                 sent_count, response_flag, flags_taken, receiver_locals,
                 outside_send>>

\* _wait_for_next_send_trigger, top of its loop: the stop check; on stop it
\* returns None and run_periodic_udp_send returns.
SendWaitCheckStop ==
  /\ send_pc = "wait_check"
  /\ IF stop_event
       THEN send_pc' = "notify" /\ send_exit' = Some("stop_while_waiting")
     ELSE send_pc' = "wait_get" /\ UNCHANGED send_exit
  /\ UNCHANGED <<stop_event, response_flag_queue, send_count_queue, sent_count,
                 response_flag, flags_taken, receiver_locals, origins, outside_send>>

\* response_flag_queue.get(timeout): a flag, or Empty once the timeout has
\* passed; flag 0 and Empty go back to the stop check, another flag returns.
SendWaitGet ==
  /\ send_pc = "wait_get"
  /\ IF response_flag_queue # <<>>
       THEN /\ response_flag_queue' = Tail(response_flag_queue)
            /\ flags_taken' = Append(flags_taken, Head(response_flag_queue))
            /\ origins' = Taken(origins)
            /\ IF KeepsWaiting(Head(response_flag_queue))
                 THEN send_pc' = "wait_check" /\ UNCHANGED response_flag
               ELSE /\ send_pc' = "judge"
                    /\ response_flag' = Some(Head(response_flag_queue))
     ELSE /\ WaitTimeout # None
          /\ send_pc' = "wait_check"
          /\ UNCHANGED <<response_flag_queue, flags_taken, response_flag, origins>>
  /\ UNCHANGED <<stop_event, send_count_queue, send_exit, sent_count,
                 receiver_locals, outside_send>>

\* run_periodic_udp_send with the flag the wait returned: flag 1 counts a
\* completed send, another flag is logged; both go on with the next cycle.
SendJudge ==
  /\ send_pc = "judge"
  /\ sent_count' = CountCompletedSend(sent_count, response_flag[1])
  /\ response_flag' = None
  /\ send_pc' = "check_stop"
  /\ UNCHANGED <<stop_event, response_flag_queue, send_count_queue, send_exit,
                 flags_taken, receiver_locals, origins, outside_send>>

\* KeyboardInterrupt, or an exception the loop does not catch, raised at a
\* line of the loop: control leaves the try block for its finally clause.
SendInterrupted ==
  /\ send_pc \in SendLoopLines
  /\ send_pc' = "notify"
  /\ \/ send_exit' = Some("KeyboardInterrupt")
     \/ send_exit' = Some("exception")
  /\ UNCHANGED <<stop_event, response_flag_queue, send_count_queue, sent_count,
                 response_flag, flags_taken, receiver_locals, origins, outside_send>>

\* finally: _notify_send_count(send_count_queue, sent_count).
SendNotify ==
  /\ send_pc = "notify"
  /\ send_count_queue' = _notify_send_count(send_count_queue, sent_count)
  /\ send_pc' = "done"
  /\ UNCHANGED <<stop_event, response_flag_queue, send_exit, sent_count,
                 response_flag, flags_taken, receiver_locals, origins, outside_send>>

\* run_multicast_udp_receive: socket set-up with settimeout, or OSError and
\* return.
ReceiveSetup ==
  /\ receive_pc = "setup"
  /\ \/ /\ socket_timeout' = Some(RECEIVE_SOCKET_TIMEOUT_MILLISECONDS)
        /\ receive_pc' = "check_stop"
     \/ /\ receive_pc' = "done"
        /\ UNCHANGED socket_timeout
  /\ UNCHANGED <<stop_event, response_flag_queue, send_count_queue, sender_locals,
                 received_flag, datagrams, full_warnings, origins, outside_send>>

\* Top of the receive loop: the stop check.
ReceiveCheckStop ==
  /\ receive_pc = "check_stop"
  /\ receive_pc' = IF stop_event THEN "leave" ELSE "recvfrom"
  /\ UNCHANGED <<stop_event, response_flag_queue, send_count_queue, sender_locals,
                 socket_timeout, received_flag, datagrams, full_warnings, origins, outside_send>>

\* udp_socket.recvfrom: TimeoutError once the socket's timeout has passed,
\* OSError, or a datagram, whose flag extract_vetmk_flag reads.
ReceiveFrom ==
  /\ receive_pc = "recvfrom"
  /\ \/ /\ socket_timeout # None
        /\ receive_pc' = "check_stop"
        /\ UNCHANGED <<received_flag, datagrams, origins>>
     \/ /\ receive_pc' = "check_stop"
        /\ UNCHANGED <<received_flag, datagrams, origins>>
     \/ /\ datagrams < MaxDatagrams
        /\ datagrams' = datagrams + 1
        /\ origins' = Received(origins)
        /\ \E n \in 1..Len(DatagramTexts) :
             /\ received_flag' = DatagramFlags[n]
             /\ receive_pc' = IF DatagramFlags[n] = None THEN "check_stop"
                              ELSE "put_nowait"
  /\ UNCHANGED <<stop_event, response_flag_queue, send_count_queue, sender_locals,
                 socket_timeout, full_warnings, outside_send>>

\* Variant: a full channel gives up its oldest flag for the new one.
ReceivePutEvicting ==
  /\ receive_pc = "put_nowait"
  /\ response_flag_queue' = IF Len(response_flag_queue) < MaxQueued
                              THEN Append(response_flag_queue, received_flag[1])
                            ELSE Append(Tail(response_flag_queue), received_flag[1])
  /\ origins' = IF Len(response_flag_queue) < MaxQueued THEN Queued(origins)
                ELSE Queued([origins EXCEPT !.queue = Tail(@)])
  /\ received_flag' = None
  /\ receive_pc' = "check_stop"
  /\ UNCHANGED <<stop_event, send_count_queue, sender_locals, socket_timeout,
                 datagrams, full_warnings, outside_send>>

\* response_flag_queue.put_nowait: queued, or Full: a warning is logged and
\* the flag is dropped.
ReceivePut ==
  /\ receive_pc = "put_nowait"
  /\ IF Len(response_flag_queue) < MaxQueued
       THEN /\ response_flag_queue' = Append(response_flag_queue, received_flag[1])
            /\ origins' = Queued(origins)
            /\ UNCHANGED full_warnings
     ELSE /\ full_warnings' = full_warnings + 1
          /\ UNCHANGED <<response_flag_queue, origins>>
  /\ received_flag' = None
  /\ receive_pc' = "check_stop"
  /\ UNCHANGED <<stop_event, send_count_queue, sender_locals, socket_timeout,
                 datagrams, outside_send>>

\* KeyboardInterrupt at a line of the receive loop.
ReceiveInterrupted ==
  /\ receive_pc \in ReceiveLoopLines
  /\ receive_pc' = "leave"
  /\ UNCHANGED <<stop_event, response_flag_queue, send_count_queue, sender_locals,
                 socket_timeout, received_flag, datagrams, full_warnings, origins, outside_send>>

\* finally: leave the multicast group, then the socket is closed.
ReceiveLeave ==
  /\ receive_pc = "leave"
  /\ receive_pc' = "done"
  /\ UNCHANGED <<stop_event, response_flag_queue, send_count_queue, sender_locals,
                 socket_timeout, received_flag, datagrams, full_warnings, origins, outside_send>>

\* The lines of run_periodic_udp_send, each of which returns control.
SenderStep ==
  \/ SendCheckStop \/ SendClear \/ SendTo \/ SendWaitCheckStop \/ SendWaitGet
  \/ SendJudge \/ SendNotify

\* The lines of run_multicast_udp_receive.
ReceiverStep ==
  \/ ReceiveSetup \/ ReceiveCheckStop \/ ReceiveFrom \/ ReceivePut \/ ReceiveLeave

SendNext ==
  \/ SetStop
  \/ SendCheckStop \/ SendClear \/ SendTo \/ SendWaitCheckStop \/ SendWaitGet
  \/ SendJudge \/ SendInterrupted \/ SendNotify
  \/ ReceiveSetup \/ ReceiveCheckStop \/ ReceiveFrom \/ ReceivePut
  \/ ReceiveInterrupted \/ ReceiveLeave

SendSpec == Init /\ [][SendNext]_vars

\* Each process keeps running: a line that can complete does complete.
FairSendSpec == SendSpec /\ WF_vars(SenderStep) /\ WF_vars(ReceiverStep)

\* ------------------------------ src udp_receiver.py: the metrics receiver

\* _current_utc()
_current_utc == Datetime(clock \div 60, clock % 60, 0, UTC)

\* The seconds the clock can advance by in one step.
ClockSteps == {29, 31}

\* Time passes.
Tick ==
  /\ \E seconds \in ClockSteps :
       /\ clock + seconds <= MaxClock
       /\ clock' = clock + seconds
  /\ UNCHANGED <<metrics_pc, state, target_sentences, received_datagrams, passed,
                 processed, windows, metrics_result, outside_metrics>>

\* Variant: the OSError of the set-up is logged and the function returns.
InitializeSwallowingError ==
  /\ metrics_pc = "initialize"
  /\ metrics_pc' \in {"loop_top", "returned"}
  /\ UNCHANGED <<clock, state, target_sentences, received_datagrams, passed,
                 processed, windows, metrics_result, outside_metrics>>

\* _initialize_udp_socket: the socket is set up, or OSError is raised and
\* leaves collect_receive_metrics_until_next_minute_boundary.
MetricsInitialize ==
  /\ metrics_pc = "initialize"
  /\ \/ metrics_pc' = "loop_top" /\ UNCHANGED metrics_result
     \/ metrics_pc' = "raised" /\ metrics_result' = Some("OSError")
  /\ UNCHANGED <<clock, state, target_sentences, received_datagrams, passed,
                 processed, windows, outside_metrics>>

\* _run_receive_loop, top of the loop: the end-time check.
MetricsLoopTop ==
  /\ metrics_pc = "loop_top"
  /\ metrics_pc' = IF _is_measurement_end_reached(state.measurement_end_utc, _current_utc)
                     THEN "leave" ELSE "recvfrom"
  /\ UNCHANGED <<clock, state, target_sentences, received_datagrams, passed,
                 processed, windows, metrics_result, outside_metrics>>

\* _receive_datagram: recvfrom raises TimeoutError once the socket's timeout
\* has passed; None is returned and the loop continues.
MetricsReceiveTimeout ==
  /\ metrics_pc = "recvfrom"
  /\ ReceiveTimeout # None
  /\ metrics_pc' = "loop_top"
  /\ UNCHANGED <<clock, state, target_sentences, received_datagrams, passed,
                 processed, windows, metrics_result, outside_metrics>>

\* _receive_datagram: recvfrom raises OSError; None is returned.
MetricsReceiveError ==
  /\ metrics_pc = "recvfrom"
  /\ metrics_pc' = "loop_top"
  /\ UNCHANGED <<clock, state, target_sentences, received_datagrams, passed,
                 processed, windows, metrics_result, outside_metrics>>

\* _receive_datagram returns a datagram; _process_received_datagram decodes
\* it and extracts its target sentences.
MetricsReceiveDatagram ==
  /\ metrics_pc = "recvfrom"
  /\ received_datagrams < MaxReceived
  /\ received_datagrams' = received_datagrams + 1
  /\ \E n \in 1..Len(MetricsDatagramTexts) :
       /\ target_sentences' = MetricsTargetSentences[n]
       /\ metrics_pc' = IF MetricsTargetSentences[n] = <<>> THEN "loop_top"
                        ELSE "sentence"
  /\ UNCHANGED <<clock, state, passed, processed, windows, metrics_result,
                 outside_metrics>>

\* _process_received_datagram, one turn of its for loop:
\* _process_target_tdb_sentence on the next sentence.
MetricsProcessSentence ==
  /\ metrics_pc = "sentence"
  /\ \E done \in {_process_target_tdb_sentence(Head(target_sentences), state, _current_utc)} :
       /\ state' = done.state
       /\ passed' = IF done.passed THEN Append(passed, _current_utc) ELSE passed
       /\ processed' = IF done.passed THEN Append(processed, Head(target_sentences))
                       ELSE processed
       /\ windows' = IF done.passed
                         /\ <<done.state.first_tdb_received_utc, done.state.measurement_end_utc>>
                              # <<state.first_tdb_received_utc, state.measurement_end_utc>>
                       THEN Append(windows, <<done.state.first_tdb_received_utc[1],
                                              done.state.measurement_end_utc[1]>>)
                     ELSE windows
       /\ IF done.should_stop
            THEN metrics_pc' = "leave" /\ target_sentences' = <<>>
          ELSE /\ target_sentences' = Tail(target_sentences)
               /\ metrics_pc' = IF Tail(target_sentences) = <<>> THEN "loop_top"
                                ELSE "sentence"
  /\ UNCHANGED <<clock, received_datagrams, metrics_result, outside_metrics>>

\* finally: _leave_multicast_group_if_needed, then the socket is closed.
MetricsLeave ==
  /\ metrics_pc = "leave"
  /\ metrics_pc' = "build"
  /\ UNCHANGED <<clock, state, target_sentences, received_datagrams, passed,
                 processed, windows, metrics_result, outside_metrics>>

\* _build_receive_metrics: RuntimeError without a window, else the pending
\* groups are finalized and the ReceiveMetrics are returned.
MetricsBuild ==
  /\ metrics_pc = "build"
  /\ IF state.first_tdb_received_utc = None \/ state.measurement_end_utc = None
       THEN /\ metrics_pc' = "raised"
            /\ metrics_result' = Some("RuntimeError")
            /\ UNCHANGED state
     ELSE \E done \in {finalize_pending_groups_as_boundary_failure(
                         state.tdb_sentence_reassembler)} :
            /\ state' = [state EXCEPT !.tdb_sentence_reassembler = done.st]
            /\ metrics_pc' = "returned"
            /\ metrics_result' = Some(
                 [rx_tdb_count |-> state.rx_tdb_count,
                  rx_payload_chars_total |-> state.rx_payload_chars_total,
                  split_reconstruct_success_count |-> get_split_reconstruct_counts(done.st)[1],
                  split_reconstruct_failure_count |-> get_split_reconstruct_counts(done.st)[2],
                  first_tdb_received_utc |-> state.first_tdb_received_utc[1],
                  measurement_end_utc |-> state.measurement_end_utc[1],
                  received_tdb_sentence_records |-> state.received_tdb_sentence_records])
  /\ UNCHANGED <<clock, target_sentences, received_datagrams, passed, processed,
                 windows, outside_metrics>>

\* The lines of collect_receive_metrics_until_next_minute_boundary, other
\* than the processing of a sentence, that complete without anything
\* arriving or failing.
MetricsStep ==
  \/ MetricsInitialize \/ MetricsLoopTop \/ MetricsReceiveTimeout
  \/ MetricsLeave \/ MetricsBuild

MetricsNext ==
  \/ Tick
  \/ MetricsInitialize \/ MetricsLoopTop \/ MetricsReceiveTimeout
  \/ MetricsReceiveError \/ MetricsReceiveDatagram
  \/ MetricsProcessSentence \/ MetricsLeave \/ MetricsBuild

MetricsSpec == Init /\ [][MetricsNext]_vars

\* The receiver keeps running: a line that can complete does complete.  The
\* processing of a sentence can complete whenever a sentence is at hand, so
\* its weak fairness is written with that condition in place of ENABLED.
FairMetricsSpec ==
  /\ MetricsSpec
  /\ WF_vars(MetricsStep)
  /\ ([]<>(metrics_pc # "sentence") \/ []<><<MetricsProcessSentence>>_vars)

\* ----------------------------------------------------- the two receive units

\* The metrics receiver and the acknowledgement receiver are separate
\* programs that share nothing: a behaviour runs one of them, the other
\* staying as it was started.
ReceiveUnitsNext ==
  \/ SendInit /\ MetricsNext
  \/ MetricsInit /\ SendNext

ReceiveUnitsSpec == Init /\ [][ReceiveUnitsNext]_vars

\* ------------------------------------------------ the functions, one call each

\* Each behaviour calls one function with one input; _bits_to_payload is
\* called with what _payload_to_bits returned.

\* Characters at and next to the ends of the two permitted ranges.
EdgeChars == {"/", "0", "W", "X", "_", GRAVE, "w", "x"}

\* Payloads given to _payload_to_bits: up to three edge characters.
CodecPayloads ==
  {<<>>} \cup {<<a>> : a \in EdgeChars} \cup {<<a, b>> : a, b \in EdgeChars}
    \cup {<<a, b, c>> : a, b, c \in {"0", "W", GRAVE, "w"}}

\* Bit strings held by the segments of a group: those of the fragment
\* payloads, and the empty one.
SegmentBits ==
  {<<>>} \cup {_payload_to_bits(FragmentPayloads[n].payload, FragmentPayloads[n].fill).value :
                 n \in 1..Len(FragmentPayloads)}

\* Groups given to _build_reassembled_sentence: complete with one or two
\* segments, or with segment 2 missing.
BuildGroups ==
  {[_TdbSegmentGroup(1, SrcA, dst) EXCEPT !.segments = Put(EmptyDict, 1, one)] :
     dst \in {DstB, DstC}, one \in SegmentBits}
  \cup {[_TdbSegmentGroup(2, SrcA, DstB) EXCEPT
           !.segments = Put(Put(EmptyDict, 1, one), 2, two)] :
         one \in SegmentBits, two \in SegmentBits}
  \cup {[_TdbSegmentGroup(2, SrcA, DstB) EXCEPT !.segments = Put(EmptyDict, 1, one)] :
         one \in SegmentBits}

\* Sentence bodies given to _calculate_checksum.
ChecksumBodies ==
  { <<>>, <<"A">>, <<"A", "A">>, <<"A", "@">>, <<"A", "N">>, <<"~", " ">>,
    <<"V", "A", "T", "D", "B", ",", "1">> }

\* Texts given to extract_vetmk_flag.
VetmkTexts ==
  { <<"$", "V", "E", "T", "M", "K", ",", "0", ",", "1", "*", "0", "0">>,
    <<"$", "V", "E", "T", "M", "K", ",", "0", ",", "0">>,
    <<"a", "b", "$", "V", "E", "T", "M", "K", ",", "0", ",", "2", "\r", "\n", "$", "V", "E", "T", "M", "K", ",", "0", ",", "1">>,
    <<"$", "V", "E", "T", "M", "K", ",", "0">>,
    <<"$", "V", "E", "T", "M", "K", ",", "1", ",", "1">>,
    <<"$", "V", "E", "T", "M", "K", ",", "0", ",", "x">>,
    <<"$", "V", "E", "T", "M", "K", ",", "0", ",">>,
    <<"V", "E", "T", "M", "K", ",", "0", ",", "1">>,
    <<"$", "V", "E", "T", "M", "K", "X", ",", "0", ",", "1">>,
    <<"$", "V", "E", "T", "M", "K", ",", " ", "0", " ", ",", "1">>,
    <<"$", "V", "E", "T", "M", "K", " ", ",", "0", ",", " ", "7", " ">>,
    <<"$", "V", "E", "T", "M", "K", ",", "0", ",", "-", "1">>,
    <<"$", "V", "E", "T", "M", "K", ",", "0", "*", ",", "1">>,
    <<"$", "V", "E", "T", "M", "K", ",", "0", ",", "1", ",", "9">>,
    <<>>,
    <<"$", "V", "E", "T", "M", "K", ",", "0", "0", ",", "1">>,
    <<"$", "V", "E", "T", "M", "K", ",", "0", ",", "+", "1">>,
    <<"$", "V", "E", "T", "M", "K", ",", "0", ",", "1", ".", "5">>,
    <<"$", "V", "E", "T", "M", "K", ",", "0", ",", "1", "\n", ",", "x">>,
    <<"$", "V", "E", "T", "M", "K", "\n", ",", "0", ",", "1">>,
    <<"!", "V", "A", "T", "D", "B", ",", "1", "$", "V", "E", "T", "M", "K", ",", "0", ",", "1", "2", "*", "7", "F", "\n">>,
    <<"$", "V", "E", "T", "M", "K", ",", ",", "1">>,
    <<"$", "V", "E", "T", "M", "K", ",", "0", ",", "1", "_", "0">> }

CallResolveMeasurementStartBoundary ==
  /\ fn = "none"
  /\ \E current_utc \in Timestamps :
       /\ fn' = "resolve_measurement_start_boundary_utc"
       /\ args' = <<current_utc>>
       /\ ret' = resolve_measurement_start_boundary_utc(current_utc)
  /\ UNCHANGED outside_functions

CallResolveNextMinuteBoundary ==
  /\ fn = "none"
  /\ \E timestamp_utc \in Timestamps :
       /\ fn' = "_resolve_next_minute_boundary_utc"
       /\ args' = <<timestamp_utc>>
       /\ ret' = _resolve_next_minute_boundary_utc(timestamp_utc)
  /\ UNCHANGED outside_functions

CallCalculateWaitSeconds ==
  /\ fn = "none"
  /\ \E target_boundary_utc \in Timestamps, current_utc \in Timestamps :
       /\ fn' = "calculate_wait_seconds_until_boundary"
       /\ args' = <<target_boundary_utc, current_utc>>
       /\ ret' = calculate_wait_seconds_until_boundary(target_boundary_utc, current_utc)
  /\ UNCHANGED outside_functions

\* main: the boundary is resolved from one reading of datetime.now(UTC) and
\* the wait is calculated with a second reading, which is not earlier.
MainStartUp ==
  /\ fn = "none"
  /\ \E first_now \in Timestamps, current_utc \in Timestamps :
       /\ first_now.tzinfo = UTC /\ current_utc.tzinfo = UTC
       /\ Microseconds(first_now) <= Microseconds(current_utc)
       /\ fn' = "main"
       /\ args' = <<first_now, current_utc>>
       /\ ret' = calculate_wait_seconds_until_boundary(
                   resolve_measurement_start_boundary_utc(first_now), current_utc)
  /\ UNCHANGED outside_functions

CallAisCharToSixbit ==
  /\ fn = "none"
  /\ \E n \in 1..Len(ASCII) :
       /\ fn' = "_ais_char_to_sixbit"
       /\ args' = <<ASCII[n]>>
       /\ ret' = _ais_char_to_sixbit(ASCII[n])
  /\ UNCHANGED outside_functions

CallSixbitToAisChar ==
  /\ fn = "none"
  /\ \E value \in (AIS_SIXBIT_MIN_VALUE - 1)..(AIS_SIXBIT_MAX_VALUE + 1) :
       /\ fn' = "_sixbit_to_ais_char"
       /\ args' = <<value>>
       /\ ret' = _sixbit_to_ais_char(value)
  /\ UNCHANGED outside_functions

CallPayloadToBits ==
  /\ fn = "none"
  /\ \E payload \in CodecPayloads, fill \in TDB_FILL_MIN_VALUE..TDB_FILL_MAX_VALUE :
       /\ fn' = "_payload_to_bits"
       /\ args' = <<payload, fill>>
       /\ ret' = _payload_to_bits(payload, fill)
  /\ UNCHANGED outside_functions

\* _bits_to_payload of the bits _payload_to_bits has just returned; args
\* keeps the payload and the fill they came from.
CallBitsToPayload ==
  /\ fn = "_payload_to_bits"
  /\ ret.ok
  /\ fn' = "_bits_to_payload"
  /\ args' = <<ret.value>> \o args
  /\ ret' = _bits_to_payload(ret.value)
  /\ UNCHANGED outside_functions

CallBuildReassembledSentence ==
  /\ fn = "none"
  /\ \E group \in BuildGroups :
       /\ fn' = "_build_reassembled_sentence"
       /\ args' = <<group>>
       /\ ret' = _build_reassembled_sentence(group)
  /\ UNCHANGED outside_functions

\* Payload and fill of the fragments given to a fresh reassembler: with
\* and without fill bits, one and two characters.
SplitPayloads ==
  { [payload |-> <<"1">>, fill |-> 0],
    [payload |-> <<"w", "0">>, fill |-> 0],
    [payload |-> <<"w", "0">>, fill |-> 4],
    [payload |-> <<"W">>, fill |-> 5] }

\* The fragments of one split message, by index.
SplitMessages ==
  UNION {[1..total -> SplitPayloads] : total \in 2..MaxTotal}

\* The orders in which n fragments arrive.
ArrivalOrders(n) ==
  {order \in [1..n -> 1..n] : \A i, j \in 1..n : i # j => order[i] # order[j]}

\* The fragment sentence index / total with the given payload and fill.
SplitFragment(total, index, part) ==
  Sentence(<<str(total), str(index), <<"1">>, SrcA, DstB, <<"0">>, <<"0">>,
             part.payload, str(part.fill)>>)

\* reassemble_sentences of a new reassembler, given the fragments of one
\* split message in an arrival order; ret is the list it returns.
CallReassembleSplitMessage ==
  /\ fn = "none"
  /\ \E message \in SplitMessages :
       \E order \in ArrivalOrders(Len(message)) :
         /\ fn' = "reassemble_sentences"
         /\ args' = <<message, order>>
         /\ ret' = reassemble_sentences(
                     [groups |-> EmptyDict, success |-> 0, failure |-> 0,
                      log |-> <<>>, closed |-> <<>>],
                     "list",
                     [k \in 1..Len(message) |->
                        Reading(SplitFragment(Len(message), order[k], message[order[k]]))],
                     Some(0)).results
  /\ UNCHANGED outside_functions

\* The sentences the datagram texts given to the extractor are made of: two
\* fragment sentences, a sentence of another type with a start mark, an
\* acknowledgement (no start mark) and a start mark without a field.
ExtractPieces ==
  << Fragment(2, 1),
     Fragment(2, 2),
     <<"!", "A", "I", "V", "D", "M", ",", "1", "*", "0", "0">>,
     <<"$", "V", "E", "T", "M", "K", ",", "0", ",", "1", "*", "0", "0">>,
     <<"!", "A", "B">> >>

\* What stands between two sentences of a datagram text: nothing (the same
\* line) or a line break.
PieceSeparators == { <<>>, <<"\n">>, <<"\r", "\n">> }

\* A datagram text of 1..MaxPieces sentences: the numbers of its sentences
\* and the separators between them.
ExtractInputs ==
  UNION { { [pieces |-> pieces, seps |-> seps] :
              pieces \in [1..n -> 1..Len(ExtractPieces)],
              seps \in [1..(n - 1) -> PieceSeparators] } : n \in 1..MaxPieces }

RECURSIVE PiecesText(_)
PiecesText(input) ==
  IF Len(input.pieces) = 1 THEN ExtractPieces[input.pieces[1]]
  ELSE ExtractPieces[input.pieces[1]] \o input.seps[1]
         \o PiecesText([pieces |-> Tail(input.pieces), seps |-> Tail(input.seps)])

CallExtractTargetTdbSentences ==
  /\ fn = "none"
  /\ \E input \in ExtractInputs :
       /\ fn' = "_extract_target_tdb_sentences"
       /\ args' = <<input>>
       /\ ret' = _extract_target_tdb_sentences(PiecesText(input))
  /\ UNCHANGED outside_functions

CallCalculateChecksum ==
  /\ fn = "none"
  /\ \E sentence_body \in ChecksumBodies :
       /\ fn' = "_calculate_checksum"
       /\ args' = <<sentence_body>>
       /\ ret' = _calculate_checksum(sentence_body)
  /\ UNCHANGED outside_functions

CallExtractVetmkFlag ==
  /\ fn = "none"
  /\ \E received_text \in VetmkTexts :
       /\ fn' = "extract_vetmk_flag"
       /\ args' = <<received_text>>
       /\ ret' = extract_vetmk_flag(received_text)
  /\ UNCHANGED outside_functions

FunctionNext ==
  \/ CallResolveMeasurementStartBoundary \/ CallResolveNextMinuteBoundary
  \/ CallCalculateWaitSeconds \/ MainStartUp
  \/ CallAisCharToSixbit \/ CallSixbitToAisChar
  \/ CallPayloadToBits \/ CallBitsToPayload
  \/ CallBuildReassembledSentence \/ CallCalculateChecksum
  \/ CallReassembleSplitMessage
  \/ CallExtractTargetTdbSentences
  \/ CallExtractVetmkFlag

FunctionSpec == Init /\ [][FunctionNext]_vars

\* ------------------------------------------------------ the report upload

REMOTE_REPORT_DIRECTORY ==
  <<"/", "h", "o", "m", "e", "/", "a", "d", "m", "i", "n", "/",
  "v", "d", "e", "s", "_", "w", "e", "b", "_", "s", "y", "s",
  "/", "s", "r", "c", "/", "r", "e", "s", "o", "u", "r", "c",
  "e", "s", "/", "n", "m", "e", "a", "/", "p", "e", "r", "f",
  "o", "r", "m", "a", "n", "c", "e", "/", "j", "s", "o", "n">>
REMOTE_REPORT_JSON_DIRECTORY == REMOTE_REPORT_DIRECTORY
POLL_INTERVAL_SECONDS == 5

\* str.rstrip("/")
RECURSIVE rstrip_slash(_)
rstrip_slash(s) ==
  IF s # <<>> /\ s[Len(s)] = "/" THEN rstrip_slash(SubSeq(s, 1, Len(s) - 1)) ELSE s

_join_remote_path(directory_path, file_name) ==
  rstrip_slash(directory_path) \o <<"/">> \o file_name

\* The passes of the loop that ended in the except block.
FailedAttempts == Len(sleeps)

\* main.py line 107: the cycle calls upload_report_file_until_success with
\* the path of the report it wrote.
UploadCall ==
  /\ upload_pc = "idle"
  /\ upload_pc' = "exists"
  /\ \E path \in [name : ReportFileNames, exists : BOOLEAN] :
       local_report_file_path' = Some(path)
  /\ UNCHANGED <<remote_report_path, sftp_client, open_calls, put_calls,
                 close_calls, sleeps, attempts, upload_result, outside_upload>>

\* Lines 50-62: the report must exist; the remote path is derived once.
UploadStart ==
  /\ upload_pc = "exists"
  /\ IF ~local_report_file_path[1].exists
       THEN /\ upload_pc' = "raised"
            /\ UNCHANGED remote_report_path
     ELSE /\ upload_pc' = "open"
          /\ remote_report_path'
               = Some(_join_remote_path(REMOTE_REPORT_JSON_DIRECTORY,
                                        local_report_file_path[1].name))
  /\ UNCHANGED <<local_report_file_path, sftp_client, open_calls, put_calls,
                 close_calls, sleeps, attempts, upload_result, outside_upload>>

\* Lines 64-69: a pass of the loop starts without clients and opens the
\* connection, which succeeds or raises.
UploadOpen ==
  /\ upload_pc = "open"
  /\ open_calls' = open_calls + 1
  /\ \/ /\ sftp_client' = Some("connected")
        /\ upload_pc' = "put"
        /\ UNCHANGED attempts
     \/ /\ FailedAttempts < MaxFailedAttempts
        /\ sftp_client' = None
        /\ upload_pc' = "except"
        /\ attempts' = Append(attempts, "open failed")
  /\ UNCHANGED <<local_report_file_path, remote_report_path, put_calls,
                 close_calls, sleeps, upload_result, outside_upload>>

\* Line 70: the put, which succeeds or raises.
UploadPut ==
  /\ upload_pc = "put"
  /\ put_calls' = put_calls + 1
  /\ \/ /\ upload_pc' = "finally"
        /\ attempts' = Append(attempts, "put done")
     \/ /\ FailedAttempts < MaxFailedAttempts
        /\ upload_pc' = "except"
        /\ attempts' = Append(attempts, "put failed")
  /\ UNCHANGED <<local_report_file_path, remote_report_path, sftp_client,
                 open_calls, close_calls, sleeps, upload_result, outside_upload>>

\* Lines 71-79: the except block.
\* Variant: the next pass starts without a wait.
UploadExceptWithoutSleep ==
  /\ upload_pc = "except"
  /\ upload_pc' = "finally, continue"
  /\ UNCHANGED <<local_report_file_path, remote_report_path, sftp_client,
                 open_calls, put_calls, close_calls, sleeps, attempts,
                 upload_result, outside_upload>>

\* Lines 71-79: the except block logs, sleeps and continues; the finally
\* block runs on the way to the next pass.
UploadExcept ==
  /\ upload_pc = "except"
  /\ sleeps' = Append(sleeps, POLL_INTERVAL_SECONDS)
  /\ upload_pc' = "finally, continue"
  /\ UNCHANGED <<local_report_file_path, remote_report_path, sftp_client,
                 open_calls, put_calls, close_calls, attempts, upload_result,
                 outside_upload>>

\* Lines 80-81: the finally block closes whatever the pass opened, then the
\* loop goes on or the function goes to its return.
UploadFinally ==
  /\ upload_pc \in {"finally", "finally, continue"}
  /\ close_calls' = Append(close_calls, sftp_client)
  /\ upload_pc' = IF upload_pc = "finally" THEN "return" ELSE "open"
  /\ UNCHANGED <<local_report_file_path, remote_report_path, sftp_client,
                 open_calls, put_calls, sleeps, attempts, upload_result,
                 outside_upload>>

\* Lines 83-84.
UploadReturn ==
  /\ upload_pc = "return"
  /\ upload_result' = remote_report_path
  /\ upload_pc' = "returned"
  /\ UNCHANGED <<local_report_file_path, remote_report_path, sftp_client,
                 open_calls, put_calls, close_calls, sleeps, attempts,
                 outside_upload>>

UploadNext ==
  \/ UploadCall \/ UploadStart \/ UploadOpen \/ UploadPut
  \/ UploadExcept \/ UploadFinally \/ UploadReturn

UploadSpec == Init /\ [][UploadNext]_vars

\* -------------------------------------------------- vocabulary of the claims

Returned(op) == pc = "returned" /\ call[1].op = op

\* A reassemble_sentences call with a one-sentence list has returned.
OneSentence == Returned("reassemble_sentences") /\ Len(call[1].sentences) = 1

TheSentence == call[1].sentences[1]
ReceivedAt == call[1].received_at[1]
GroupsBefore == before[1].groups

\* The fields of a sentence text: the type, then the fields after it.
TextFields(sentence) == split(split_first(strip(sentence), "*"), ",")
TextField(sentence, position) == strip(TextFields(sentence)[position + 1])
TextInt(sentence, position) == int(TextField(sentence, position)).value

IsFragmentText(sentence) ==
  LET type == TextFields(sentence)[1]
  IN  /\ Len(TextFields(sentence)) >= 2
      /\ Len(type) = 6 /\ type[1] = "!" /\ SubSeq(type, 4, 6) = <<"T", "D", "B">>

IsAisText(payload) ==
  \A i \in 1..Len(payload) :
    \/ 48 <= ord(payload[i]) /\ ord(payload[i]) <= 87
    \/ 96 <= ord(payload[i]) /\ ord(payload[i]) <= 119

\* The sentence is a fragment sentence that is not malformed: ten fields or
\* more, integer total, index, sequence and fill, total >= 1, index within
\* 1..total, fill within 0..5, a non-empty payload of AIS characters.
IsWellFormedText(sentence) ==
  /\ IsFragmentText(sentence)
  /\ Len(TextFields(sentence)) >= 10
  /\ \A position \in {1, 2, 3, 9} : IsIntText(TextField(sentence, position))
  /\ TextInt(sentence, 1) >= 1
  /\ TextInt(sentence, 2) >= 1 /\ TextInt(sentence, 2) <= TextInt(sentence, 1)
  /\ TextInt(sentence, 9) >= 0 /\ TextInt(sentence, 9) <= 5
  /\ TextField(sentence, 8) # <<>>
  /\ IsAisText(TextField(sentence, 8))

\* The fragment sentence parses: the minimum number of fields, integer
\* total, index, sequence and fill, total >= 1, index within 1..total, fill
\* within 0..5, a payload that is not empty.
ParsesText(sentence) ==
  /\ IsFragmentText(sentence)
  /\ Len(TextFields(sentence)) >= 10
  /\ \A position \in {1, 2, 3, 9} : IsIntText(TextField(sentence, position))
  /\ TextInt(sentence, 1) >= 1
  /\ TextInt(sentence, 2) >= 1 /\ TextInt(sentence, 2) <= TextInt(sentence, 1)
  /\ TextInt(sentence, 9) >= 0 /\ TextInt(sentence, 9) <= 5
  /\ TextField(sentence, 8) # <<>>

\* total, src and dst of the sentence can be read: the group key they name.
NamesKey(sentence) ==
  /\ IsFragmentText(sentence)
  /\ Len(TextFields(sentence)) >= 6
  /\ IsIntText(TextField(sentence, 1))
  /\ TextField(sentence, 4) # <<>>
  /\ TextField(sentence, 5) # <<>>

TextKey(sentence) ==
  <<TextInt(sentence, 1), TextField(sentence, 4), TextField(sentence, 5)>>

\* The sentence has the form !VATDB,1,1,0,<src>,<dst>,0,0,<payload>,<fill>*<XX>.
IsReassembledForm(sentence, src, dst) ==
  LET body == split_first(sentence, "*")
      fields == split(body, ",")
      checksum == slice(sentence, Len(body) + 1, Len(sentence))
  IN  /\ Len(fields) = 10
      /\ SubSeq(fields, 1, 4) = << <<"!", "V", "A", "T", "D", "B">>, <<"1">>, <<"1">>, <<"0">> >>
      /\ fields[5] = src /\ fields[6] = dst
      /\ fields[7] = <<"0">> /\ fields[8] = <<"0">>
      /\ fields[9] # <<>> /\ IsAisText(fields[9])
      /\ \E fill \in 0..5 : fields[10] = str(fill)
      /\ Len(sentence) = Len(body) + 3
      /\ \A i \in 1..2 : \E h \in 1..16 : checksum[i] = HexDigits[h]

\* What the text of each sentence of the input alphabet says, read from the
\* text alone.
TextFacts ==
  [n \in 1..Len(SentenceList) |->
    LET sentence == SentenceList[n]
        int_at(position) == IF Len(TextFields(sentence)) > position
                                 /\ IsIntText(TextField(sentence, position))
                              THEN Some(TextInt(sentence, position))
                            ELSE None
    IN  [is_fragment |-> IsFragmentText(sentence),
         parses |-> ParsesText(sentence),
         well_formed |-> IsWellFormedText(sentence),
         names_key |-> NamesKey(sentence),
         key |-> IF int_at(1) # None /\ Len(TextFields(sentence)) >= 6
                   THEN TextKey(sentence)
                 ELSE None,
         total |-> int_at(1),
         index |-> int_at(2),
         bits |-> IF IsWellFormedText(sentence)
                    THEN _payload_to_bits(TextField(sentence, 8), TextInt(sentence, 9)).value
                  ELSE None,
         stripped |-> strip(sentence)]]

\* The facts of the one sentence of the call.
Arrived == TextFacts[call[1].batch[1]]

\* Seconds between the group's last fragment and this call (negative when
\* the call's time is the earlier one).
Elapsed(key) == ReceivedAt - GroupsBefore[key].last_received_at[1]

\* The group of the key was open when the call started and the call's expiry
\* pass did not time it out.
OpenAndInTime(key) == key \in DOMAIN GroupsBefore /\ Elapsed(key) <= 30

HeldBefore(key) == DOMAIN GroupsBefore[key].segments

Failure(key) == [key |-> key, outcome |-> "failure"]
Success(key) == [key |-> key, outcome |-> "success"]
ClosedEntries == {closed[i] : i \in 1..Len(closed)}
LogEntries == {log[i] : i \in 1..Len(log)}
\* The call closed the group of the key once, as a failure.
ClosedOnceAsFailure(key) ==
  /\ Failure(key) \in ClosedEntries
  /\ Cardinality({i \in 1..Len(closed) : closed[i].key = key}) = 1

CountOf(outcome) == Cardinality({i \in 1..Len(closed) : closed[i].outcome = outcome})

\* ---------------------------------------------------------------- claims

\* C1: for a key of total N >= 2, a well-formed fragment with index k that
\* arrives when the key's group holds exactly the indices 1..k-1 (no group
\* for k = 1), at most 30 s after the group's last fragment, returns no
\* sentence and leaves the group holding 1..k when k < N, and when k = N
\* returns exactly one sentence !VATDB,1,1,0,<src>,<dst>,0,0,<payload>,
\* <fill>*<checksum> and leaves the key without an open group.
C1_InOrderReassembly ==
  (OneSentence /\ Arrived.well_formed /\ Arrived.total[1] >= 2) =>
    LET key == Arrived.key
        total == Arrived.total[1]
        index == Arrived.index[1]
        in_order == IF index = 1 THEN key \notin DOMAIN GroupsBefore
                    ELSE OpenAndInTime(key) /\ HeldBefore(key) = 1..(index - 1)
    IN  in_order =>
          IF index < total
            THEN /\ results = <<>>
                 /\ key \in DOMAIN groups
                 /\ DOMAIN groups[key].segments = 1..index
          ELSE /\ Len(results) = 1
               /\ IsReassembledForm(results[1], key[2], key[3])
               /\ key \notin DOMAIN groups

\* The last fragment of the largest group arrived in order and completed it.
C1_Witness ==
  /\ OneSentence
  /\ TheSentence = Fragment(MaxTotal, MaxTotal)
  /\ OpenAndInTime(<<MaxTotal, SrcA, DstB>>)
  /\ HeldBefore(<<MaxTotal, SrcA, DstB>>) = 1..(MaxTotal - 1)
  /\ Len(results) = 1
  /\ closed = <<Success(<<MaxTotal, SrcA, DstB>>)>>

\* C2: when a method returns, get_split_reconstruct_counts() has grown by
\* the number of groups the call closed by a successful reconstruction and
\* by the number it closed as a failure, each closure counted once.
C2_CountsMatchClosures ==
  pc = "returned" =>
    get_split_reconstruct_counts(
      [success |-> split_reconstruct_success_count,
       failure |-> split_reconstruct_failure_count])
      = << before[1].success + CountOf("success"), before[1].failure + CountOf("failure") >>

\* C3: when reassemble_sentences returns, every group that was open with a
\* last_received_at more than 30 s before received_at has been closed as a
\* failure by the expiry pass and gave no reconstruction, and a group with
\* an elapsed time of 30 s or less was not expired: after a call with an
\* empty list it is open and unchanged.
C3_ExpiryAtCallStart ==
  Returned("reassemble_sentences") =>
    \A key \in DOMAIN GroupsBefore :
      IF Elapsed(key) > 30
        THEN /\ closed # <<>> /\ Failure(key) \in ClosedEntries
             /\ <<"expired", key>> \in LogEntries
             /\ \E i \in 1..Len(closed) :
                  /\ closed[i] = Failure(key)
                  /\ \A j \in 1..(i - 1) :
                       closed[j].outcome = "failure" /\ Elapsed(closed[j].key) > 30
             /\ Len(call[1].sentences) <= 1 => Success(key) \notin ClosedEntries
             /\ key \in DOMAIN groups =>
                  groups[key].last_received_at = Some(ReceivedAt)
      ELSE /\ <<"expired", key>> \notin LogEntries
           /\ call[1].sentences = <<>> =>
                key \in DOMAIN groups /\ groups[key] = GroupsBefore[key]

\* A call with an empty list expired one group and kept another one.
C3_Witness ==
  /\ Returned("reassemble_sentences")
  /\ call[1].sentences = <<>>
  /\ \E old, kept \in DOMAIN GroupsBefore :
       /\ Elapsed(old) > 30 /\ old \notin DOMAIN groups
       /\ Elapsed(kept) <= 30 /\ kept \in DOMAIN groups

\* C4 as stated: a well-formed fragment whose index (any index 1..total) is
\* already held by the open group of its key closes the group as a failure,
\* returns no sentence, is not stored, and leaves the key without a group.
C4_DuplicateClosesGroup ==
  (OneSentence /\ Arrived.well_formed /\ Arrived.total[1] >= 2) =>
    LET key == Arrived.key
    IN  (OpenAndInTime(key) /\ Arrived.index[1] \in HeldBefore(key)) =>
          /\ results = <<>>
          /\ ClosedOnceAsFailure(key)
          /\ key \notin DOMAIN groups

\* C4 amended: the group is closed as a failure and no sentence is returned;
\* for an index of 2..total the key has no open group afterwards, for index
\* 1 a new group holding only the repeated fragment is open afterwards.
C4_DuplicateOrSuperseded ==
  (OneSentence /\ Arrived.well_formed /\ Arrived.total[1] >= 2) =>
    LET key == Arrived.key
        index == Arrived.index[1]
    IN  (OpenAndInTime(key) /\ index \in HeldBefore(key)) =>
          /\ results = <<>>
          /\ ClosedOnceAsFailure(key)
          /\ IF index = 1
               THEN /\ key \in DOMAIN groups
                    /\ DOMAIN groups[key].segments = {1}
                    /\ groups[key].segments[1] = Arrived.bits
                    /\ groups[key].last_received_at = Some(ReceivedAt)
             ELSE key \notin DOMAIN groups

\* A fragment with index 2 arrived again while the group held index 2.
C4_Witness ==
  /\ OneSentence
  /\ TheSentence = Fragment(MaxTotal, 2)
  /\ OpenAndInTime(<<MaxTotal, SrcA, DstB>>)
  /\ 2 \in HeldBefore(<<MaxTotal, SrcA, DstB>>)
  /\ log = << <<"duplicate", <<MaxTotal, SrcA, DstB>>>> >>
  /\ <<MaxTotal, SrcA, DstB>> \notin DOMAIN groups

\* C5: finalize_pending_groups_as_boundary_failure closes every open group
\* as a failure, returns the number of groups that were open, leaves no
\* group open, and returns 0 when called again directly afterwards.
C5_FinalizeClosesAll ==
  Returned("finalize_pending_groups_as_boundary_failure") =>
    /\ groups = EmptyDict
    /\ pending_count = Cardinality(DOMAIN GroupsBefore)
    /\ ClosedEntries = {Failure(key) : key \in DOMAIN GroupsBefore}
    /\ Len(closed) = Cardinality(DOMAIN GroupsBefore)
    /\ last_op = "finalize_pending_groups_as_boundary_failure" => pending_count = 0

\* Finalization closed two open groups.
C5_Witness ==
  /\ Returned("finalize_pending_groups_as_boundary_failure")
  /\ pending_count = 2
  /\ Len(closed) = 2

\* C6: a well-formed fragment sentence with total = 1 is returned as the
\* single output, equal to the sentence without its surrounding white
\* space; the counters are as before the call and the open groups are those
\* the expiry pass of the call left, unchanged.
C6_SingleFragmentPassThrough ==
  (OneSentence /\ Arrived.well_formed /\ Arrived.total[1] = 1) =>
    /\ results = <<Arrived.stripped>>
    /\ split_reconstruct_success_count = before[1].success
    /\ split_reconstruct_failure_count = before[1].failure
    /\ groups = [key \in {k \in DOMAIN GroupsBefore : Elapsed(k) <= 30}
                   |-> GroupsBefore[key]]
    /\ \A i \in 1..Len(closed) :
         closed[i].outcome = "failure" /\ Elapsed(closed[i].key) > 30

\* A total-1 fragment with surrounding white space was passed through while
\* a group was open.
C6_Witness ==
  /\ OneSentence
  /\ TheSentence = <<" ">> \o Fragment(1, 1) \o <<" ">>
  /\ results = <<Fragment(1, 1)>>
  /\ groups # EmptyDict
  /\ groups = GroupsBefore

\* C7: if the group of a key (total >= 2, src, dst) is open and a fragment
\* sentence arrives whose total, src and dst name that key and whose index
\* field is no integer, the group is closed as a failure and the sentence
\* gives no output.
C7_BadIndexClosesGroup ==
  (OneSentence /\ Arrived.names_key /\ Arrived.total[1] >= 2
     /\ Arrived.index = None) =>
    LET key == Arrived.key
    IN  OpenAndInTime(key) =>
          /\ results = <<>>
          /\ ClosedOnceAsFailure(key)
          /\ key \notin DOMAIN groups

\* The sentence with index X arrived while the group of its key was open.
C7_Witness ==
  /\ OneSentence
  /\ TheSentence = WithField(2, 1, TDB_FIELD_SEGMENT_INDEX_POSITION, <<"X">>)
  /\ OpenAndInTime(<<2, SrcA, DstB>>)
  /\ closed = <<Failure(<<2, SrcA, DstB>>)>>
  /\ results = <<>>

Ones(flags) == Cardinality({i \in 1..Len(flags) : flags[i] = 1})

\* The wait of the send cycle takes the flag from the channel in this step.
TakesFlag(flag) == flags_taken' = Append(flags_taken, flag)

\* C8: in a send cycle, after the transmission, taking flag 0 from the
\* channel leaves sent_count unchanged and the sender goes back to the wait
\* (from where it reaches no transmission); a non-zero flag is handed to the
\* loop, where flag 1 adds exactly one to sent_count and any other flag
\* leaves it unchanged, and in both cases the loop goes to its top for the
\* next cycle; sent_count changes nowhere else.
C8_FlagHandling ==
  [][/\ TakesFlag(0) => (sent_count' = sent_count /\ send_pc' = "wait_check")
     /\ \A flag \in {1, 2} :
          TakesFlag(flag) => /\ sent_count' = sent_count
                             /\ send_pc' = "judge"
                             /\ response_flag' = Some(flag)
     /\ (send_pc = "judge" /\ send_pc' \notin {"judge", "notify"}) =>
          /\ send_pc' = "check_stop"
          /\ sent_count' = IF response_flag = Some(1) THEN sent_count + 1
                           ELSE sent_count
     /\ sent_count' # sent_count => (send_pc = "judge" /\ response_flag = Some(1))
     /\ send_pc \in {"wait_check", "wait_get"} =>
          send_pc' \in {"wait_check", "wait_get", "judge", "notify"}
    ]_vars

\* The sender took the flags 0, 1 and 2 and is at the top of its loop again
\* with one completed send.
C8_Witness ==
  /\ {flags_taken[i] : i \in 1..Len(flags_taken)} = {0, 1, 2}
  /\ sent_count = 1
  /\ send_pc = "check_stop"

C10_StopTerminates ==
  /\ stop_event ~> (send_pc = "done")
  /\ stop_event ~> (receive_pc = "done")
  /\ [][/\ (send_pc = "wait_get" /\ send_pc' \notin {"wait_get", "judge", "notify"})
            => send_pc' = "wait_check"
        /\ (receive_pc = "recvfrom" /\ receive_pc' \notin {"recvfrom", "put_nowait", "leave"})
            => receive_pc' = "check_stop"
       ]_vars

\* Both units have terminated on the stop signal, the sender out of its wait.
C10_Witness ==
  /\ stop_event
  /\ send_pc = "done" /\ send_exit = Some("stop_while_waiting")
  /\ receive_pc = "done" /\ socket_timeout # None

\* The datetime a is earlier than the datetime b (both UTC).
Earlier(a, b) == Microseconds(a) < Microseconds(b)

WindowEndReached ==
  /\ state.measurement_end_utc # None
  /\ ~Earlier(_current_utc, state.measurement_end_utc[1])

LoopLeft == metrics_pc \in {"leave", "build", "returned"}

\* C11: every timestamp at which the metrics receiver calls the reassembler,
\* and every record it keeps, is earlier than measurement_end_utc, and the
\* count is the number of records; a sentence met at or after the end
\* changes nothing, ends the loop and leaves the rest of its datagram
\* unprocessed, and the loop is not entered again.
C11_NothingAfterWindowEnd ==
  /\ [](state.measurement_end_utc # None =>
          /\ \A i \in 1..Len(passed) : Earlier(passed[i], state.measurement_end_utc[1])
          /\ \A i \in 1..Len(state.received_tdb_sentence_records) :
               Earlier(state.received_tdb_sentence_records[i].received_utc,
                       state.measurement_end_utc[1])
          /\ state.rx_tdb_count = Len(state.received_tdb_sentence_records))
  /\ [][/\ (metrics_pc = "sentence" /\ WindowEndReached /\ clock' = clock) =>
             /\ state' = state
             /\ passed' = passed
             /\ metrics_pc' = "leave"
             /\ target_sentences' = <<>>
        /\ LoopLeft => (metrics_pc' \in {"leave", "build", "returned"})
       ]_vars

\* The first sentence of a two-sentence datagram was processed at second 31
\* and the loop stopped at the second sentence, met after the end.
C11_Witness ==
  /\ metrics_pc = "leave"
  /\ received_datagrams = 1
  /\ passed = <<Datetime(0, 31, 0, UTC)>>
  /\ DOMAIN state.tdb_sentence_reassembler.groups = {<<2, SrcA, DstB>>}

\* C12: once the window exists and the clock has reached its end, the
\* receive loop terminates and the function returns, whether or not a
\* datagram arrives; and the loop is never left while no fragment has been
\* received.
C12_LoopEndsWithWindow ==
  /\ WindowEndReached ~> (metrics_pc = "returned")
  /\ [](LoopLeft => state.first_tdb_received_utc # None /\ passed # <<>>)

\* The function returned after a single datagram.
C12_Witness ==
  /\ metrics_pc = "returned"
  /\ received_datagrams = 1
  /\ target_sentences = <<>>

\* C13: the window is derived once, at the first call of the reassembler:
\* first_tdb_received_utc is the timestamp of that call, measurement_end_utc
\* has zero seconds and microseconds, is later than the start and at most
\* 60 s later, and the pair is never set again.
C13_WindowDerivedOnce ==
  /\ Len(windows) <= 1
  /\ (windows = <<>>) = (passed = <<>>)
  /\ (state.first_tdb_received_utc = None) = (passed = <<>>)
  /\ (state.measurement_end_utc = None) = (passed = <<>>)
  /\ passed # <<>> =>
       /\ windows[1] = <<state.first_tdb_received_utc[1], state.measurement_end_utc[1]>>
       /\ state.first_tdb_received_utc[1] = passed[1]
       /\ state.measurement_end_utc[1].second = 0
       /\ state.measurement_end_utc[1].microsecond = 0
       /\ Earlier(passed[1], state.measurement_end_utc[1])
       /\ Microseconds(state.measurement_end_utc[1]) - Microseconds(passed[1]) <= 60000000

\* A second fragment was processed later than the first one and the window
\* is the one of the first.
C13_Witness ==
  /\ Len(passed) >= 2
  /\ Earlier(passed[1], passed[2])
  /\ windows = << <<passed[1], Datetime(1, 0, 0, UTC)>> >>

\* The instant of a datetime, in microseconds of UTC.
Instant(timestamp) == Microseconds(normalize_utc_datetime(timestamp))

\* timedelta(minutes=1), in microseconds.
MINUTE == 60000000

FollowingMinute(instant) == ((instant \div MINUTE) + 1) * MINUTE

\* What C14 says of one boundary function.
SameOrFollowingMinute(name) ==
  fn = name =>
    /\ Instant(args[1]) % MINUTE = 0 => Microseconds(ret) = Instant(args[1])
    /\ Instant(args[1]) % MINUTE # 0 => Microseconds(ret) = FollowingMinute(Instant(args[1]))
    /\ ret.second = 0 /\ ret.microsecond = 0
    /\ Microseconds(ret) >= Instant(args[1])
    /\ Microseconds(ret) - Instant(args[1]) < MINUTE

\* C14 as stated: both boundary functions return the instant of their input
\* when it has zero seconds and microseconds and the start of the following
\* minute otherwise; the result has zero seconds and microseconds, is not
\* earlier than the input and less than 60 s after it.
C14_BothKeepExactBoundary ==
  /\ SameOrFollowingMinute("resolve_measurement_start_boundary_utc")
  /\ SameOrFollowingMinute("_resolve_next_minute_boundary_utc")

\* C14, amended: the sender's resolve_measurement_start_boundary_utc is as
\* stated; the receiver's _resolve_next_minute_boundary_utc returns the
\* start of the following minute for every input, which is later than the
\* input and at most 60 s after it, and 60 s after an input that has zero
\* seconds and microseconds.
C14_BoundaryPerUnit ==
  /\ SameOrFollowingMinute("resolve_measurement_start_boundary_utc")
  /\ fn = "_resolve_next_minute_boundary_utc" =>
       /\ Microseconds(ret) = FollowingMinute(Instant(args[1]))
       /\ ret.second = 0 /\ ret.microsecond = 0
       /\ Microseconds(ret) > Instant(args[1])
       /\ Microseconds(ret) - Instant(args[1]) <= MINUTE
       /\ Instant(args[1]) % MINUTE = 0 => Microseconds(ret) - Instant(args[1]) = MINUTE

\* The receiver's function was given 00:01:00.000000 UTC and returned
\* 00:02:00.
C14_Witness ==
  /\ fn = "_resolve_next_minute_boundary_utc"
  /\ args = <<Datetime(1, 0, 0, UTC)>>
  /\ ret = Datetime(2, 0, 0, UTC)

\* C15: calculate_wait_seconds_until_boundary returns max(0, target - now):
\* never a negative time, 0 when now is at or past the target; in the
\* start-up of main the wait is at least 0 and less than 60 s.
C15_WaitIsClampedDifference ==
  /\ fn = "calculate_wait_seconds_until_boundary" =>
       /\ ret >= 0
       /\ Instant(args[2]) >= Instant(args[1]) => ret = 0
       /\ Instant(args[2]) < Instant(args[1]) => ret = Instant(args[1]) - Instant(args[2])
  /\ fn = "main" => 0 <= ret /\ ret < MINUTE

\* The wait was calculated with now 59.999999 s past the target.
C15_Witness ==
  /\ fn = "calculate_wait_seconds_until_boundary"
  /\ args = <<Datetime(0, 0, 0, UTC), Datetime(0, 59, 999999, None)>>
  /\ ret = 0

PermittedChars ==
  {ASCII[n] : n \in {k \in 1..Len(ASCII) : ord(ASCII[k]) \in (48..87) \cup (96..119)}}

\* C16: _ais_char_to_sixbit maps the codes 48..87 to 0..39 and 96..119 to
\* 40..63 and raises for every other character; it is one-to-one from the 64
\* permitted characters onto 0..63 with _sixbit_to_ais_char as its
\* inverse, and _bits_to_payload gives back the payload whose bits
\* _payload_to_bits returned with fill 0.
C16_CodecRoundTrip ==
  /\ fn = "_ais_char_to_sixbit" =>
       /\ ord(args[1]) \in 48..87 => ret = Return(ord(args[1]) - 48)
       /\ ord(args[1]) \in 96..119 => ret = Return(ord(args[1]) - 56)
       /\ args[1] \notin PermittedChars => ret = Raise
       /\ ret.ok => _sixbit_to_ais_char(ret.value) = Return(args[1])
  /\ fn = "_sixbit_to_ais_char" =>
       IF args[1] \in 0..63
         THEN /\ ret.ok
              /\ ret.value \in PermittedChars
              /\ _ais_char_to_sixbit(ret.value) = Return(args[1])
       ELSE ret = Raise
  /\ fn = "_payload_to_bits" =>
       IF \A i \in 1..Len(args[1]) : args[1][i] \in PermittedChars
         THEN args[2] = 0 => ret.ok /\ Len(ret.value) = 6 * Len(args[1])
       ELSE ret = Raise
  /\ (fn = "_bits_to_payload" /\ args[3] = 0) => ret = Return(args[2])
  /\ Cardinality(PermittedChars) = 64
  /\ {_ais_char_to_sixbit(c).value : c \in PermittedChars} = 0..63

\* A three-character payload holding both ends of the upper range came
\* back from its bits.
C16_Witness ==
  /\ fn = "_bits_to_payload"
  /\ args[2] = <<GRAVE, "w", "0">>
  /\ args[3] = 0
  /\ Len(args[1]) = 18
  /\ ret = Return(<<GRAVE, "w", "0">>)

\* One bit of the XOR of the character codes of a text: 1 when the number of
\* characters whose code has the bit of that weight is odd.
BitParity(text, weight) ==
  Cardinality({k \in 1..Len(text) : (ord(text[k]) \div weight) % 2 = 1}) % 2

XorOfCodes(text) ==
  BitParity(text, 1) + 2 * BitParity(text, 2) + 4 * BitParity(text, 4)
    + 8 * BitParity(text, 8) + 16 * BitParity(text, 16) + 32 * BitParity(text, 32)
    + 64 * BitParity(text, 64) + 128 * BitParity(text, 128)

UpperHex == <<"0", "1", "2", "3", "4", "5", "6", "7", "8", "9", "A", "B", "C", "D", "E", "F">>

\* The checksum text is two upper-case hexadecimal digits writing the value.
IsTwoHexDigitsOf(checksum, value) ==
  /\ Len(checksum) = 2
  /\ checksum[1] = UpperHex[(value \div 16) + 1]
  /\ checksum[2] = UpperHex[(value % 16) + 1]

\* C17: a sentence built by _build_reassembled_sentence is "!", a body
\* without "*", "*" and a checksum, and the checksum, like every result of
\* _calculate_checksum, is the XOR of the character codes of the body
\* written as two upper-case hexadecimal digits.
C17_ChecksumIsXorOfBody ==
  /\ fn = "_calculate_checksum" => IsTwoHexDigitsOf(ret, XorOfCodes(args[1]))
  /\ (fn = "_build_reassembled_sentence" /\ ret.ok /\ ret.value # None) =>
       LET sentence == ret.value[1]
           star == Len(sentence) - 2
           body == SubSeq(sentence, 2, star - 1)
       IN  /\ Len(sentence) >= 4
           /\ sentence[1] = "!"
           /\ sentence[star] = "*"
           /\ \A i \in 1..Len(body) : body[i] # "*"
           /\ IsTwoHexDigitsOf(SubSeq(sentence, star + 1, Len(sentence)), XorOfCodes(body))
           /\ SubSeq(sentence, star + 1, Len(sentence)) = _calculate_checksum(body)

\* A sentence was built from two segments whose checksum is below 16.
C17_Witness ==
  /\ fn = "_build_reassembled_sentence"
  /\ args[1].total = 2
  /\ ret.ok /\ ret.value # None
  /\ ret.value[1][Len(ret.value[1]) - 1] = "0"

\* The fields of the first line from the marker on, without what follows "*".
AckFields(text) ==
  split(split_first(first_line(slice(text, find_text(text, VETMK_MARK), Len(text))), "*"), ",")

HasAckFields(text) == find_text(text, VETMK_MARK) >= 0 /\ Len(AckFields(text)) >= 3

\* C19 as stated: extract_vetmk_flag returns a flag exactly when the text
\* holds the marker and the fields are at least three, the first being the
\* identifier, the second the literal 0 and the third an integer, which is
\* the flag.
C19_FlagExactlyForLiteralFields ==
  fn = "extract_vetmk_flag" =>
    IF /\ HasAckFields(args[1])
       /\ AckFields(args[1])[1] = VETMK_MARK
       /\ AckFields(args[1])[2] = <<"0">>
       /\ int(strip(AckFields(args[1])[3])).ok
      THEN ret = Some(int(strip(AckFields(args[1])[3])).value)
    ELSE ret = None

\* C19, amended: the first and the second field are compared after the
\* white space around them is removed.
C19_FlagForTrimmedFields ==
  fn = "extract_vetmk_flag" =>
    IF /\ HasAckFields(args[1])
       /\ strip(AckFields(args[1])[1]) = VETMK_MARK
       /\ strip(AckFields(args[1])[2]) = <<"0">>
       /\ int(strip(AckFields(args[1])[3])).ok
      THEN ret = Some(int(strip(AckFields(args[1])[3])).value)
    ELSE ret = None

\* The flag 1 was returned for a text whose second field is " 0 ".
C19_Witness ==
  /\ fn = "extract_vetmk_flag"
  /\ args = << <<"$", "V", "E", "T", "M", "K", ",", " ", "0", " ", ",", "1">> >>
  /\ ret = Some(1)

\* C18: a put_nowait on a full acknowledgement channel logs a warning,
\* leaves the channel as it is, drops the flag and returns to the top of the
\* receive loop; on a channel with room the flag is appended; in both cases
\* the line can complete, so the receive unit does not wait on the channel.
C18_FullChannelDropsFlag ==
  /\ [](receive_pc = "put_nowait" => ENABLED ReceivePut)
  /\ [][(receive_pc = "put_nowait" /\ receive_pc' = "check_stop") =>
          /\ received_flag' = None
          /\ IF Len(response_flag_queue) >= MaxQueued
               THEN /\ response_flag_queue' = response_flag_queue
                    /\ full_warnings' = full_warnings + 1
             ELSE /\ response_flag_queue' = Append(response_flag_queue, received_flag[1])
                  /\ full_warnings' = full_warnings
       ]_vars

\* A flag was dropped at a full channel and the unit is back at the top of
\* its loop.
C18_Witness ==
  /\ full_warnings = 1
  /\ Len(response_flag_queue) = MaxQueued
  /\ receive_pc = "check_stop"

\* The acknowledgement receiver's socket set-up has failed: the set-up line
\* is behind it and the socket has no timeout.
AckSetupFailed == receive_pc # "setup" /\ socket_timeout = None

\* The metrics receiver has ended without a measurement window, which only
\* a failed set-up brings about.
MetricsSetupFailed ==
  metrics_pc \in {"raised", "returned"} /\ state.first_tdb_received_utc = None

MetricsFailureRaised ==
  MetricsSetupFailed =>
    /\ metrics_pc = "raised"
    /\ metrics_result = Some("OSError")
    /\ received_datagrams = 0
    /\ passed = <<>>

\* C20 as stated: in both receive units a failed socket set-up keeps the
\* receive loop from starting and reaches the caller as an error.
C20_SetupFailureRaisedInBoth ==
  /\ MetricsFailureRaised
  /\ AckSetupFailed =>
       /\ receive_pc = "raised"
       /\ datagrams = 0

\* C20, amended: the metrics receiver raises OSError to its caller without
\* having received anything, and returns its metrics only with a window;
\* the acknowledgement receiver does not start its loop either, but
\* returns to its caller as it does after a stop request.
C20_SetupFailureRaisedByMetricsOnly ==
  /\ MetricsFailureRaised
  /\ metrics_pc = "returned" =>
       /\ metrics_result # None
       /\ state.first_tdb_received_utc # None
       /\ metrics_result[1].first_tdb_received_utc = state.first_tdb_received_utc[1]
  /\ AckSetupFailed =>
       /\ receive_pc = "done"
       /\ datagrams = 0
       /\ received_flag = None
       /\ response_flag_queue = <<>>
       /\ full_warnings = 0

\* The acknowledgement receiver is done after a failed set-up, before any
\* stop request.
C20_Witness ==
  /\ AckSetupFailed
  /\ receive_pc = "done"
  /\ ~stop_event

\* The reassemble_sentences call has ended, by a return or by an exception.
Ended == pc \in {"returned", "raised"} /\ call[1].op = "reassemble_sentences"

\* The arguments of the call: no sentence list, a sentence list that is no
\* list, no timestamp.
MissingOrWrongArguments ==
  \/ call[1].sentences_type # "list"
  \/ call[1].received_at = None

\* C21: reassemble_sentences called with a missing sentence list, a sentence
\* list that is not a list, or a missing timestamp raises an error before
\* the expiry pass runs: the open groups, their last_received_at values and
\* the counters are exactly as before the call.
C21_ArgumentErrorBeforeExpiry ==
  (Ended /\ MissingOrWrongArguments) =>
    /\ pc = "raised"
    /\ raised \in {Some("ValueError"), Some("TypeError")}
    /\ results = <<>>
    /\ groups = GroupsBefore
    /\ \A key \in DOMAIN groups :
         groups[key].last_received_at = GroupsBefore[key].last_received_at
    /\ split_reconstruct_success_count = before[1].success
    /\ split_reconstruct_failure_count = before[1].failure
    /\ closed = <<>> /\ log = <<>>

\* A call without a sentence list, with a timestamp more than 30 s after the
\* last fragment of an open group, raised and left the group open.
C21_Witness ==
  /\ pc = "raised"
  /\ call[1].sentences_type = "NoneType"
  /\ call[1].received_at # None
  /\ raised = Some("ValueError")
  /\ \E key \in DOMAIN groups :
       /\ groups[key].last_received_at # None
       /\ ReceivedAt - groups[key].last_received_at[1] > 30

\* The facts of the sentences of the call, in the order of the list.
ArrivedList == [k \in 1..Len(call[1].batch) |-> TextFacts[call[1].batch[k]]]

\* The sentence is no fragment sentence, or a well-formed one with total 1:
\* it is an output as it is.
IsPassedThrough(facts) ==
  /\ facts.stripped # <<>>
  /\ \/ ~facts.is_fragment
     \/ facts.well_formed /\ facts.total[1] = 1

\* The outputs are those of the sentences, in the order of the sentences: a
\* passed-through sentence gives itself, a well-formed fragment of a split
\* message gives nothing or one reconstruction for its src and dst, any
\* other sentence gives nothing.
RECURSIVE OutputsFollow(_, _)
OutputsFollow(outputs, facts) ==
  IF facts = <<>> THEN outputs = <<>>
  ELSE IF IsPassedThrough(Head(facts))
    THEN /\ outputs # <<>>
         /\ Head(outputs) = Head(facts).stripped
         /\ OutputsFollow(Tail(outputs), Tail(facts))
  ELSE IF Head(facts).well_formed
    THEN \/ OutputsFollow(outputs, Tail(facts))
         \/ /\ outputs # <<>>
            /\ IsReassembledForm(Head(outputs), Head(facts).key[2], Head(facts).key[3])
            /\ OutputsFollow(Tail(outputs), Tail(facts))
  ELSE OutputsFollow(outputs, Tail(facts))

\* C22: for every list of sentences and every timestamp reassemble_sentences
\* returns normally: a malformed fragment, an undecodable payload, a
\* duplicate index give no output, and the other sentences of the same call
\* are processed in their order.
C22_EveryListReturns ==
  (Ended /\ ~MissingOrWrongArguments) =>
    /\ pc = "returned"
    /\ raised = None
    /\ OutputsFollow(results, ArrivedList)
    /\ \A k \in 1..Len(ArrivedList) :
         (IsPassedThrough(ArrivedList[k]) /\ k = Len(ArrivedList)) =>
           results # <<>> /\ results[Len(results)] = ArrivedList[k].stripped

\* A fragment whose payload cannot be decoded, given between two sentences
\* that are passed through, closed the open group of its key; the call
\* returned the two other sentences in their order.
C22_Witness ==
  /\ Returned("reassemble_sentences")
  /\ call[1].sentences
       = <<VETMK_SENTENCE,
           WithField(2, 2, TDB_FIELD_PAYLOAD_POSITION, <<"X">>),
           Fragment(1, 1)>>
  /\ results = <<VETMK_SENTENCE, Fragment(1, 1)>>
  /\ closed = <<Failure(<<2, SrcA, DstB>>)>>

\* The open groups after the call are groups that were open before it,
\* each as it was: the call stored nothing.
NothingStored ==
  \A key \in DOMAIN groups :
    key \in DOMAIN GroupsBefore /\ groups[key] = GroupsBefore[key]

\* C23: a fragment sentence is stored in a group or passed through only if
\* it parses (at least the minimum number of fields, integer total, index,
\* sequence and fill, total >= 1, 1 <= index <= total, 0 <= fill <= 5, a
\* payload that is not empty); a fragment sentence violating one of these
\* gives no output and is not stored in any group.
C23_OnlyParsedFragmentsKept ==
  (OneSentence /\ Arrived.is_fragment) =>
    /\ ~Arrived.parses => results = <<>> /\ NothingStored
    /\ (results # <<>> \/ ~NothingStored) => Arrived.parses

\* A fragment with a fill of 6 and index 1 arrived for a key without a
\* group while another group was open: nothing was returned or stored.
C23_Witness ==
  /\ OneSentence
  /\ TheSentence = WithField(2, 1, TDB_FIELD_FILL_POSITION, <<"6">>)
  /\ <<2, SrcA, DstB>> \notin DOMAIN GroupsBefore
  /\ GroupsBefore # EmptyDict
  /\ groups = GroupsBefore
  /\ results = <<>>

\* The passes of the upload loop so far that ended in one of the given ways.
AttemptsEnding(ways) == Cardinality({i \in 1..Len(attempts) : attempts[i] \in ways})

\* The upload is between two passes of its loop, or after the last one.
BetweenAttempts == upload_pc \in {"open", "return", "returned"}

HeldSoFar(key) == IF key \in DOMAIN GroupsBefore THEN HeldBefore(key) ELSE {}

\* The one sentence of the call is a well-formed fragment of a split message
\* whose index its group does not hold, arriving while the key has no group
\* or at most 30 s after the group's last fragment.
NewIndexInTime ==
  /\ OneSentence /\ Arrived.well_formed /\ Arrived.total[1] >= 2
  /\ Arrived.key \in DOMAIN GroupsBefore => OpenAndInTime(Arrived.key)
  /\ Arrived.index[1] \notin HeldSoFar(Arrived.key)

\* The fragment is kept with the ones held, and completes the group when it
\* is the last index missing: exactly one reconstruction is returned then.
KeptAndCompletedWhenLast ==
  LET key == Arrived.key
      held == HeldSoFar(key) \cup {Arrived.index[1]}
  IN  IF held = 1..Arrived.total[1]
        THEN /\ Len(results) = 1
             /\ IsReassembledForm(results[1], key[2], key[3])
             /\ Success(key) \in ClosedEntries
             /\ Failure(key) \notin ClosedEntries
             /\ key \notin DOMAIN groups
      ELSE /\ results = <<>>
           /\ key \in DOMAIN groups
           /\ DOMAIN groups[key].segments = held
           /\ Success(key) \notin ClosedEntries
           /\ Failure(key) \notin ClosedEntries

\* C25 as stated: the N fragments of a total = N >= 2 group, arriving in
\* any order (index 1 not being the first included) without duplicate, each
\* within 30 s of the one before, complete the group when the last missing
\* index arrives, and one reconstruction is returned at that moment.
C25_AnyOrderCompletes == NewIndexInTime => KeptAndCompletedWhenLast

\* C25 amended: the same for the arrival orders that start with index 1;
\* an index 1 that arrives after another fragment of its group closes that
\* group as a failure and opens a new group holding index 1 only, and no
\* reconstruction is returned.
C25_FirstIndexFirstCompletes ==
  NewIndexInTime =>
    IF Arrived.index[1] = 1 /\ Arrived.key \in DOMAIN GroupsBefore
      THEN /\ results = <<>>
           /\ ClosedOnceAsFailure(Arrived.key)
           /\ DOMAIN groups[Arrived.key].segments = {1}
    ELSE KeptAndCompletedWhenLast

\* The largest group was completed by its second fragment, indices 1 and
\* MaxTotal having arrived before it.
C25_Witness ==
  /\ NewIndexInTime
  /\ MaxTotal > 2
  /\ TheSentence = Fragment(MaxTotal, 2)
  /\ <<MaxTotal, SrcA, DstB>> \in DOMAIN GroupsBefore
  /\ HeldBefore(<<MaxTotal, SrcA, DstB>>) = (1..MaxTotal) \ {2}
  /\ Len(results) = 1
  /\ <<MaxTotal, SrcA, DstB>> \notin DOMAIN groups

\* The one sentence of the call is a well-formed index-1 fragment of a split
\* message whose key had an open group when the call started.
FirstIndexForOpenKey ==
  /\ OneSentence /\ Arrived.well_formed /\ Arrived.total[1] >= 2
  /\ Arrived.index[1] = 1
  /\ Arrived.key \in DOMAIN GroupsBefore

\* C26: when a well-formed fragment with index 1 arrives for a key whose
\* group is open, the old group is closed as a failure before anything else
\* and a new group holding only the new index-1 fragment is opened: nothing
\* the old group held is in it, and the call returns no reconstruction.
C26_FirstIndexSupersedes ==
  FirstIndexForOpenKey =>
    LET key == Arrived.key
    IN  /\ results = <<>>
        /\ ClosedOnceAsFailure(key)
        /\ \A i \in 1..Len(log) :
             log[i][2] = key =>
               log[i][1] = (IF Elapsed(key) > 30 THEN "expired" ELSE "superseded")
        /\ Cardinality({i \in 1..Len(log) : log[i][2] = key}) = 1
        /\ key \in DOMAIN groups
        /\ groups[key]
             = [total |-> key[1], src |-> key[2], dst |-> key[3],
                segments |-> (1 :> Arrived.bits),
                last_received_at |-> Some(ReceivedAt)]

\* Index 1 of the largest group arrived while its group held all the
\* other indices: the group was superseded and nothing was returned.
C26_Witness ==
  /\ FirstIndexForOpenKey
  /\ TheSentence = Fragment(MaxTotal, 1)
  /\ OpenAndInTime(<<MaxTotal, SrcA, DstB>>)
  /\ HeldBefore(<<MaxTotal, SrcA, DstB>>) = 2..MaxTotal
  /\ log = << <<"superseded", <<MaxTotal, SrcA, DstB>>>> >>
  /\ DOMAIN groups[<<MaxTotal, SrcA, DstB>>].segments = {1}

\* The one sentence of the call is a fragment sentence that fails parsing.
ParseFailed == OneSentence /\ Arrived.is_fragment /\ ~Arrived.parses

\* total, src and dst of the failed sentence can be read, total >= 2, and
\* its index reads as 1 or its key has an open group.
ClosureTriggered ==
  /\ Arrived.names_key
  /\ Arrived.total[1] >= 2
  /\ \/ Arrived.index = Some(1)
     \/ OpenAndInTime(Arrived.key)

\* The open groups the expiry pass of the call left.
LeftByExpiry ==
  [key \in {k \in DOMAIN GroupsBefore : Elapsed(k) <= 30} |-> GroupsBefore[key]]

\* C27: a fragment sentence that fails parsing triggers the failure closure
\* of its key exactly when its total, src and dst can be read, total >= 2,
\* and its index reads as 1 or its key has an open group; in every other
\* parse-failure case the open groups are left unchanged.
C27_ParseFailureClosure ==
  ParseFailed =>
    /\ results = <<>>
    /\ IF ClosureTriggered
         THEN /\ <<"parse", Arrived.key>> \in LogEntries
              /\ Arrived.key \notin DOMAIN groups
              /\ OpenAndInTime(Arrived.key) => ClosedOnceAsFailure(Arrived.key)
              /\ \A key \in DOMAIN LeftByExpiry \ {Arrived.key} :
                   key \in DOMAIN groups /\ groups[key] = GroupsBefore[key]
       ELSE /\ \A entry \in LogEntries : entry[1] # "parse"
            /\ groups = LeftByExpiry

\* A fragment with index 1 and a fill of 6 arrived while the group of its
\* key was open: the group was closed as a failure.
C27_Witness ==
  /\ ParseFailed
  /\ TheSentence = WithField(2, 1, TDB_FIELD_FILL_POSITION, <<"6">>)
  /\ OpenAndInTime(<<2, SrcA, DstB>>)
  /\ closed = <<Failure(<<2, SrcA, DstB>>)>>
  /\ log = << <<"parse", <<2, SrcA, DstB>>>> >>

\* The failure-closing steps the call took for the key, and the groups of
\* the key it removed as failures.
StepsTaken(key) == Cardinality({i \in 1..Len(log) : log[i][2] = key})
FailuresClosed(key) == Cardinality({i \in 1..Len(closed) : closed[i] = Failure(key)})

\* The groups of the key the call can have opened: one for each of its
\* sentences that parses as a fragment of the key (none for a finalization).
OpenedInCall(key) ==
  IF call[1].op # "reassemble_sentences" THEN 0
  ELSE Cardinality({k \in 1..Len(call[1].batch) :
                      /\ TextFacts[call[1].batch[k]].parses
                      /\ TextFacts[call[1].batch[k]].key = key})

SixBitsOf(char) ==
  LET value == IF ord(char) <= 87 THEN ord(char) - 48 ELSE ord(char) - 56
  IN  [k \in 1..6 |-> (value \div (2 ^ (6 - k))) % 2]

BitsOfText(payload) ==
  [n \in 1..(6 * Len(payload)) |-> SixBitsOf(payload[((n - 1) \div 6) + 1])[((n - 1) % 6) + 1]]

\* The bit string of a fragment: the bits of its payload without the last
\* fill bits.
BitsOfPart(part) == SubSeq(BitsOfText(part.payload), 1, 6 * Len(part.payload) - part.fill)

\* The bit strings, and the payloads, of the fragments of a message joined
\* in index order.
JoinedBits(message) ==
  LET Joined[index \in 0..Len(message)] ==
        IF index = 0 THEN <<>> ELSE Joined[index - 1] \o BitsOfPart(message[index])
  IN  Joined[Len(message)]

JoinedPayloads(message) ==
  LET Joined[index \in 0..Len(message)] ==
        IF index = 0 THEN <<>> ELSE Joined[index - 1] \o message[index].payload
  IN  Joined[Len(message)]

\* C29: the payload of a reconstructed sentence encodes the fragments' bit
\* strings (6 bits per payload character, without the last fill bits)
\* joined in index order 1..total, whatever the arrival order, followed by
\* f zero bits, f = (-length) mod 6 being the emitted fill, 0 <= f <= 5;
\* the padded length is a multiple of 6, and when every fragment has fill
\* 0 the payload is the fragment payloads joined and the emitted fill is 0.
C29_PayloadIsJoinedBits ==
  (fn = "reassemble_sentences" /\ ret # <<>>) =>
    LET message == args[1]
        payload == TextField(ret[1], 8)
        fill == TextInt(ret[1], 9)
        length == Len(JoinedBits(message))
    IN  /\ Len(ret) = 1
        /\ IsReassembledForm(ret[1], SrcA, DstB)
        /\ fill \in 0..5
        /\ (length + fill) % 6 = 0
        /\ BitsOfText(payload) = JoinedBits(message) \o [k \in 1..fill |-> 0]
        /\ (\A index \in 1..Len(message) : message[index].fill = 0) =>
             payload = JoinedPayloads(message) /\ fill = 0

\* The fragments of a message of the largest total, the last of them with
\* fill bits, arrived with index 1 first and the others in descending
\* order, and were reconstructed.
C29_Witness ==
  /\ fn = "reassemble_sentences"
  /\ Len(args[1]) = MaxTotal
  /\ args[1][1].fill = 0
  /\ args[1][MaxTotal].fill = 5
  /\ args[2] = [k \in 1..MaxTotal |-> IF k = 1 THEN 1 ELSE MaxTotal + 2 - k]
  /\ Len(ret) = 1

\* The one sentence of the call is a well-formed fragment of a split message
\* that arrives more than 30 s after the last fragment of its key's group.
LateFragment ==
  /\ OneSentence /\ Arrived.well_formed /\ Arrived.total[1] >= 2
  /\ Arrived.key \in DOMAIN GroupsBefore
  /\ Elapsed(Arrived.key) > 30

\* C30: within one reassemble_sentences call the expiry pass is finished
\* before a fragment of the call is registered: a fragment that arrives more
\* than 30 s after its group's last fragment neither completes nor extends
\* that group; the old group is closed as a failure and the late fragment
\* starts a new group.
C30_LateFragmentStartsAnew ==
  /\ Returned("reassemble_sentences") =>
       \A i, j \in 1..Len(log) : (i < j /\ log[j][1] = "expired") => log[i][1] = "expired"
  /\ LateFragment =>
       LET key == Arrived.key
       IN  /\ results = <<>>
           /\ ClosedOnceAsFailure(key)
           /\ {entry \in LogEntries : entry[2] = key} = {<<"expired", key>>}
           /\ key \in DOMAIN groups
           /\ groups[key]
                = [total |-> key[1], src |-> key[2], dst |-> key[3],
                   segments |-> (Arrived.index[1] :> Arrived.bits),
                   last_received_at |-> Some(ReceivedAt)]

\* The second fragment of the smallest group arrived more than 30 s after
\* the first: the old group was closed and a new one holds the second
\* fragment only.
C30_Witness ==
  /\ LateFragment
  /\ TheSentence = Fragment(2, 2)
  /\ HeldBefore(<<2, SrcA, DstB>>) = {1}
  /\ results = <<>>
  /\ closed = <<Failure(<<2, SrcA, DstB>>)>>
  /\ DOMAIN groups[<<2, SrcA, DstB>>].segments = {2}

\* The call's received_at is earlier than the last_received_at of the group.
ClockAnomaly(key) == ReceivedAt < GroupsBefore[key].last_received_at[1]

\* No sentence of the call names the key.
NotNamedInCall(key) ==
  \A k \in 1..Len(call[1].batch) : TextFacts[call[1].batch[k]].key # key

TakenFlags == 1..Len(origins.taken)

\* The send unit is between the end of the clearing and the next stop check.
PastClearing == send_pc \in {"sendto", "wait_check", "wait_get", "judge"}

\* The flag was received after the transmission of an earlier cycle and
\* before the transmission of the cycle whose wait took it.
FromEarlierCycle(flag) == flag.after_send /\ flag.before_send

TakenSinceSend ==
  [i \in 1..(Len(flags_taken) - origins.taken_at_send) |->
     flags_taken[origins.taken_at_send + i]]

\* The send unit is at a line from which the next thing it sends is a new
\* request: the stop check, the clearing or sendto.
BeforeTransmission == send_pc \in {"check_stop", "clear", "sendto"}

CandidateFacts ==
  [sentence \in DOMAIN MetricsReadings |->
     [is_fragment |-> IsFragmentText(sentence),
      parses |-> ParsesText(sentence),
      total |-> IF ParsesText(sentence) THEN Some(TextInt(sentence, 1)) ELSE None,
      payload_chars |-> IF Len(split(split_first(sentence, "*"), ",")) > 8
                          THEN Some(Len(split(split_first(sentence, "*"), ",")[9]))
                        ELSE None]]

WindowExists ==
  state.first_tdb_received_utc # None \/ state.measurement_end_utc # None

RECURSIVE PieceLines(_, _)
PieceLines(pieces, seps) ==
  IF Len(pieces) = 1 THEN << pieces >>
  ELSE LET rest == PieceLines(Tail(pieces), Tail(seps))
       IN  IF seps[1] = <<>>
             THEN << <<pieces[1]>> \o rest[1] >> \o Tail(rest)
           ELSE << <<pieces[1]>> >> \o rest

IsFragmentPiece(number) == IsFragmentText(ExtractPieces[number])

\* The fragment sentences of the text, in the order of the text.
RECURSIVE FragmentPieces(_)
FragmentPieces(pieces) ==
  IF pieces = <<>> THEN <<>>
  ELSE (IF IsFragmentPiece(pieces[1]) THEN <<ExtractPieces[pieces[1]]>> ELSE <<>>)
         \o FragmentPieces(Tail(pieces))

RECURSIVE PiecesJoined(_)
PiecesJoined(line) ==
  IF line = <<>> THEN <<>> ELSE ExtractPieces[line[1]] \o PiecesJoined(Tail(line))

\* The line from its first fragment sentence to its end, if it has one.
RECURSIVE FromFirstFragment(_)
FromFirstFragment(line) ==
  IF line = <<>> THEN <<>>
  ELSE IF IsFragmentPiece(line[1]) THEN << PiecesJoined(line) >>
  ELSE FromFirstFragment(Tail(line))

RECURSIVE OnePerLine(_)
OnePerLine(lines) ==
  IF lines = <<>> THEN <<>>
  ELSE FromFirstFragment(lines[1]) \o OnePerLine(Tail(lines))

Extracted == fn = "_extract_target_tdb_sentences"

\* C35 as stated: the extractor returns one candidate for every fragment
\* sentence of the text, in the order of the text, each candidate beginning
\* with its fragment sentence.
C35_OneCandidatePerFragment ==
  Extracted =>
    LET fragments == FragmentPieces(args[1].pieces)
    IN  /\ Len(ret) = Len(fragments)
        /\ \A i \in 1..Len(ret) :
             SubSeq(ret[i], 1, Len(fragments[i])) = fragments[i]

\* C35, amended: the extractor returns one candidate for every line that
\* contains a fragment sentence, in the order of the lines: the line from
\* its first fragment sentence to its end, whatever precedes that sentence
\* on the line and whatever follows it.
C35_OneCandidatePerLine ==
  Extracted => ret = OnePerLine(PieceLines(args[1].pieces, args[1].seps))

\* A line had a sentence of another type, then two fragment sentences: one
\* candidate was returned, holding both fragment sentences.
C35_Witness ==
  /\ Extracted
  /\ args[1].pieces = <<3, 1, 2>>
  /\ args[1].seps = << <<>>, <<>> >>
  /\ ret = << Fragment(2, 1) \o Fragment(2, 2) >>

\* C36: whenever a method of the reassembler has returned (and at every
\* other moment between calls), every group in the open-group map has a
\* total of 2 or more, holds at least one segment and fewer than total
\* segments, holds only indices within 1..total, is stored under the key of
\* its own total, src and dst, and has a last_received_at.
C36_OpenGroupsAreIncomplete ==
  \A key \in DOMAIN groups :
    LET group == groups[key]
    IN  /\ group.total >= 2
        /\ DOMAIN group.segments # {}
        /\ Cardinality(DOMAIN group.segments) < group.total
        /\ DOMAIN group.segments \subseteq 1..group.total
        /\ key = <<group.total, group.src, group.dst>>
        /\ group.last_received_at # None

\* A call returned that completed the group of one key while the group of
\* another key stays open with all its fragments but one.
C36_Witness ==
  /\ Returned("reassemble_sentences")
  /\ \E done \in DOMAIN GroupsBefore, open \in DOMAIN groups :
       /\ Success(done) \in ClosedEntries
       /\ done \notin DOMAIN groups
       /\ open # done
       /\ Cardinality(DOMAIN groups[open].segments) = groups[open].total - 1
       /\ groups[open].total > 2

\* The sentence, the text after "*" left out, has a ninth field.
HasPayloadField(sentence) == Len(split(split_first(sentence, "*"), ",")) >= 9

\* The length of that field.
PayloadFieldLength(sentence) ==
  IF HasPayloadField(sentence) THEN Len(split(split_first(sentence, "*"), ",")[9])
  ELSE 0

RECURSIVE PayloadCharsOf(_)
PayloadCharsOf(records) ==
  IF records = <<>> THEN 0
  ELSE PayloadFieldLength(Head(records).tdb_sentence) + PayloadCharsOf(Tail(records))

\* The three values the receive loop accumulates.
Accumulated ==
  <<state.rx_tdb_count, state.rx_payload_chars_total, state.received_tdb_sentence_records>>

\* C37: in every state of the receive loop rx_tdb_count is the number of
\* records and rx_payload_chars_total the sum of the lengths of the payload
\* fields of the recorded sentences, each of which has a payload field; no
\* step decreases either value or removes a record, and the processing of a
\* sentence that has no payload field leaves count, total and records as
\* they were.
C37_CountsMatchRecords ==
  /\ [](/\ state.rx_tdb_count = Len(state.received_tdb_sentence_records)
        /\ state.rx_payload_chars_total = PayloadCharsOf(state.received_tdb_sentence_records)
        /\ \A i \in 1..Len(state.received_tdb_sentence_records) :
             HasPayloadField(state.received_tdb_sentence_records[i].tdb_sentence))
  /\ [][/\ state'.rx_tdb_count >= state.rx_tdb_count
        /\ state'.rx_payload_chars_total >= state.rx_payload_chars_total
        /\ SubSeq(state'.received_tdb_sentence_records, 1,
                  Len(state.received_tdb_sentence_records))
             = state.received_tdb_sentence_records
        /\ (/\ metrics_pc = "sentence"
            /\ processed' # processed
            /\ CandidateFacts[Head(target_sentences)].payload_chars = None)
           => Accumulated' = Accumulated
       ]_vars

\* A sentence that is passed through without a payload field was processed
\* and left the three values alone; the next sentence, passed through with
\* a payload field of one character, was counted.
C37_Witness ==
  /\ Len(processed) = 2
  /\ ~CandidateFacts[processed[1]].is_fragment
  /\ CandidateFacts[processed[1]].payload_chars = None
  /\ CandidateFacts[processed[2]].payload_chars = Some(1)
  /\ state.rx_tdb_count = 1
  /\ state.rx_payload_chars_total = 1
  /\ Len(state.received_tdb_sentence_records) = 1

\* ------------------------------------------------------------------ C38

\* The characters between the start mark and the first comma of a sentence.
SentenceType(sentence) == Tail(TextFields(sentence)[1])

\* The receive loop's test of a sentence type: five characters ending in
\* TDB once the white space around it is removed.
TypeRecognisedByReceiver(sentence) ==
  LET type == strip(SentenceType(sentence))
  IN  Len(type) = 5 /\ SubSeq(type, 3, 5) = <<"T", "D", "B">>

TypeHasSpaces(sentence) == strip(SentenceType(sentence)) # SentenceType(sentence)

RecordedSentences ==
  {state.received_tdb_sentence_records[i].tdb_sentence :
     i \in 1..Len(state.received_tdb_sentence_records)}

ProcessedSentences == {processed[i] : i \in 1..Len(processed)}

\* A sentence with one fragment that parses; a reconstructed sentence is
\* written as one.
IsWholeSentence(sentence) == ParsesText(sentence) /\ TextInt(sentence, 1) = 1

\* C38 as stated: every candidate the receive loop extracts is a fragment
\* sentence for the reassembler, and every counted sentence is a parsed
\* single-fragment sentence or a reconstructed one.
C38_CandidatesAreFragments ==
  /\ \A sentence \in ProcessedSentences : CandidateFacts[sentence].is_fragment
  /\ \A sentence \in RecordedSentences : IsWholeSentence(sentence)

\* C38, amended: every candidate has a type the receive loop recognises;
\* the reassembler classifies it as a fragment exactly when its type has
\* no white space around it; a candidate it does not classify is passed
\* through and, having a payload field, counted; every other counted
\* sentence is a parsed single-fragment or reconstructed sentence.
C38_RecognitionAgreesUpToSpaces ==
  /\ \A sentence \in ProcessedSentences :
       /\ TypeRecognisedByReceiver(sentence)
       /\ CandidateFacts[sentence].is_fragment <=> ~TypeHasSpaces(sentence)
       /\ (TypeHasSpaces(sentence) /\ HasPayloadField(sentence))
            => sentence \in RecordedSentences
  /\ \A sentence \in RecordedSentences :
       \/ IsWholeSentence(sentence)
       \/ sentence \in ProcessedSentences /\ TypeHasSpaces(sentence)

\* A candidate with a space before its type, holding fragment 1 of 2, was
\* counted as it arrived, beside a parsed single-fragment sentence; no
\* group was opened for it.
C38_Witness ==
  /\ \E sentence \in RecordedSentences :
       /\ TypeHasSpaces(sentence)
       /\ split(split_first(sentence, "*"), ",")[2] = <<"2">>
  /\ \E sentence \in RecordedSentences : IsWholeSentence(sentence)
  /\ state.tdb_sentence_reassembler.groups = EmptyDict
  /\ state.rx_tdb_count = 2

\* ------------------------------------------------------------------ C39

\* The groups the expiry pass of the call closed.
ExpiredInCall == {key \in DOMAIN GroupsBefore : <<"expired", key>> \in LogEntries}

\* Another group of the same source and destination.
DiffersOnlyInTotal(key, other) ==
  other # key /\ other[2] = key[2] /\ other[3] = key[3]

\* C39: when reassemble_sentences returns, every group whose key no sentence
\* of the call names is as it was before the call, with the same segments
\* and the same last_received_at and without a closure, unless the expiry
\* pass of the call closed it; and no group is opened under a key that no
\* sentence of the call names.
C39_OtherGroupsUnchanged ==
  Returned("reassemble_sentences") =>
    /\ \A key \in DOMAIN GroupsBefore :
         NotNamedInCall(key) =>
           IF key \in ExpiredInCall
             THEN key \notin DOMAIN groups
           ELSE /\ key \in DOMAIN groups
                /\ groups[key] = GroupsBefore[key]
                /\ \A i \in 1..Len(closed) : closed[i].key # key
    /\ \A key \in DOMAIN groups \ DOMAIN GroupsBefore : ~NotNamedInCall(key)

\* One malformed fragment closed the open group of its key, while the open
\* group that differs from it only in total kept its segments and its time.
C39_Witness ==
  /\ OneSentence
  /\ Arrived.is_fragment /\ ~Arrived.parses
  /\ Arrived.key \in DOMAIN GroupsBefore
  /\ Arrived.key \notin DOMAIN groups
  /\ \E other \in DOMAIN groups :
       /\ DiffersOnlyInTotal(Arrived.key, other)
       /\ other \in DOMAIN GroupsBefore \ ExpiredInCall
       /\ groups[other] = GroupsBefore[other]

\* ------------------------------------------------------------------ C40

\* The groups the reassembler of the receive loop holds open.
PendingGroups == DOMAIN state.tdb_sentence_reassembler.groups

\* C40: once _run_receive_loop has returned, first_tdb_received_utc and
\* measurement_end_utc are both set; _build_receive_metrics never raises its
\* RuntimeError (the function fails only while the socket is set up); its
\* step closes every pending group as a failure and returns, and the counts
\* and the window it reports are those of the reassembler and the state
\* after that closing, no group being left.
C40_NormalExitHasWindow ==
  /\ [](/\ LoopLeft => /\ state.first_tdb_received_utc # None
                       /\ state.measurement_end_utc # None
        /\ metrics_pc = "returned" =>
             /\ PendingGroups = {}
             /\ <<metrics_result[1].split_reconstruct_success_count,
                  metrics_result[1].split_reconstruct_failure_count>>
                  = get_split_reconstruct_counts(state.tdb_sentence_reassembler)
             /\ metrics_result[1].first_tdb_received_utc = state.first_tdb_received_utc[1]
             /\ metrics_result[1].measurement_end_utc = state.measurement_end_utc[1])
  /\ [][/\ metrics_pc' = "raised" => metrics_pc \in {"initialize", "raised"}
        /\ metrics_pc = "build" =>
          /\ metrics_pc' = "returned"
          /\ \A key \in PendingGroups :
               /\ <<"boundary", key>> \in
                    {state'.tdb_sentence_reassembler.log[i] :
                       i \in 1..Len(state'.tdb_sentence_reassembler.log)}
               /\ Failure(key) \in
                    {state'.tdb_sentence_reassembler.closed[i] :
                       i \in 1..Len(state'.tdb_sentence_reassembler.closed)}
       ]_vars

\* The loop was left at the end of a window in which fragment 1 of 2 had
\* arrived alone; the metrics were returned with that group closed at the
\* boundary and nothing counted.
C40_Witness ==
  /\ metrics_pc = "returned"
  /\ metrics_result # None
  /\ metrics_result[1].rx_tdb_count = 0
  /\ \E key \in {<<2, SrcA, DstB>>} :
       <<"boundary", key>> \in {state.tdb_sentence_reassembler.log[i] :
                                 i \in 1..Len(state.tdb_sentence_reassembler.log)}
  /\ PendingGroups = {}

====
